---- MODULE Spec2Model ----
(***************************************************************************)
(* Event fan-out and webhook delivery of the document-management backend:  *)
(* publish_event -> process_event -> {dispatch_notifications,              *)
(* deliver_webhooks, update_search_index} -> deliver_single_webhook.       *)
(*                                                                         *)
(* Strings that the code splits on "." are modelled as the sequence of     *)
(* their dot-free segments: "document.created" is <<"document","created">>.*)
(* Python None is the value None for strings and Null (<<>>) for nullable  *)
(* integer columns, whose values are one-element sequences <<v>>.          *)
(***************************************************************************)
EXTENDS Integers, Sequences, FiniteSets, TLC

VARIABLES
    subs,           \* table document_subscriptions: id -> row
    endpoints,      \* table webhook_endpoints: id -> row
    notifications,  \* table notifications: sequence of committed rows
    deliveries,     \* table webhook_deliveries: id -> committed row
    eventQ,         \* queued process_event tasks
    notificationQ,  \* queued dispatch_notifications tasks
    webhookQ,       \* queued deliver_webhooks tasks
    searchQ,        \* queued update_search_index tasks
    deliveryQ,      \* queued deliver_single_webhook tasks
    nextId,         \* fresh identifiers: [task, notification, delivery]
    now,            \* the clock read by datetime.now
    published,      \* log of publish_event calls and how each returned
    processLog,     \* the process_event runs: .delay calls made, outcome
    searchLog,      \* the update_search_index runs and the calls each made
    posts,          \* delivery id -> the HTTP POSTs made for it, in order
    retryLog,       \* delivery id -> the self.retry calls made for it
    lastAttempt,    \* delivery id -> its latest attempt: number, time, outcome
    lastCall,       \* the latest direct task invocation: arguments, outcome
    calls,          \* number of direct task invocations made so far
    workers,        \* delivery-worker processes: the invocation each is in
    endpointOps,    \* number of endpoint updates and deletions made so far
    lastOp,         \* the latest service call: operation, arguments, result
    sessions,       \* open database sessions: name -> what each has flushed
    entities        \* committed rows of the mutated tables, by entity id

vars == <<subs, endpoints, notifications, deliveries, eventQ, notificationQ,
          webhookQ, searchQ, deliveryQ, nextId, now, published, processLog,
          searchLog, posts, retryLog, lastAttempt, lastCall, calls, workers,
          endpointOps, lastOp, sessions, entities>>

---------------------------------------------------------------------------
(* Bounds of the model *)

\* publish_event calls in one behaviour
MaxPublish == 1
\* direct invocations of one fan-out task in one behaviour
MaxCalls == 1
\* runs of the notification fan-out for one and the same event
MaxRuns == 2
\* endpoint updates and deletions in one behaviour
MaxEndpointOps == 1
\* delivery attempts followed while endpoints are being changed
MaxAttemptsFollowed == 2

---------------------------------------------------------------------------
(* Values *)

None == "None"
Null == <<>>
Some(x) == <<x>>

\* Python truthiness of an optional string (None and "" are falsy)
Truthy(s) == s # None /\ s # ""

Persons == {"p1", "p2"}
Documents == {"d1", "d2"}

DocumentCreated == <<"document", "created">>
CommentCreated == <<"comment", "created">>
DocumentVersionCreated == <<"document", "version", "created">>

\* members of the enum EventType that the model publishes
EventType == {DocumentCreated, CommentCreated}

\* event types a task can be invoked with (a task takes any string)
TaskEventTypes == EventType \cup {DocumentVersionCreated}

\* payload maps are opaque: None, the empty map, or some non-empty map
EmptyMap == "{}"
Payloads == {None, EmptyMap}

\* `payload or {}`
OrEmptyMap(p) == IF p = None \/ p = EmptyMap THEN EmptyMap ELSE p

\* event_types lists stored on subscriptions and endpoints
EventTypeLists ==
    { <<>>,
      << <<"document">> >>,
      << DocumentCreated >>,
      << <<"comment">>, DocumentVersionCreated >> }

\* the six keyword arguments every event task carries
EventData(event_type, entity_type, entity_id, actor_id, document_id, payload) ==
    [event_type |-> event_type, entity_type |-> entity_type,
     entity_id |-> entity_id, actor_id |-> actor_id,
     document_id |-> document_id, payload |-> payload]

\* event_type.split(".")
SplitDot(s) == [i \in 1..Len(s) |-> <<s[i]>>]

\* event_type.split(".")[0]
EventPrefix(event_type) == SplitDot(event_type)[1]

---------------------------------------------------------------------------
(* Notification fan-out: app/tasks/notifications.py *)

\* matching on the exact event type only
MatchesEventExact(subscribed_types, event_type, event_prefix) ==
    \E i \in 1..Len(subscribed_types) : subscribed_types[i] = event_type

\* matching on every dotted prefix of the event type
MatchesEventAnyPrefix(subscribed_types, event_type, event_prefix) ==
    \E i \in 1..Len(subscribed_types) :
        /\ Len(subscribed_types[i]) <= Len(event_type)
        /\ SubSeq(event_type, 1, Len(subscribed_types[i])) = subscribed_types[i]

\* matching with an empty list taken for a wildcard
MatchesEventOrEmpty(subscribed_types, event_type, event_prefix) ==
    \/ subscribed_types = <<>>
    \/ \E i \in 1..Len(subscribed_types) :
          \/ subscribed_types[i] = event_type
          \/ subscribed_types[i] = event_prefix

\* _matches_event: some listed type equals the event type or its prefix
MatchesEvent(subscribed_types, event_type, event_prefix) ==
    \E i \in 1..Len(subscribed_types) :
        \/ subscribed_types[i] = event_type
        \/ subscribed_types[i] = event_prefix

\* event_type.replace('.', ' ').title(): the capitalised words of the type
Title(event_type) == [i \in 1..Len(event_type) |-> <<"Capitalized", event_type[i]>>]

\* f"Event {event_type} on {entity_type} {entity_id}"
Body(e) == <<"Event", e.event_type, "on", e.entity_type, e.entity_id>>

\* Notification(...) with the column defaults of the model class
Notification(id, sub, e) ==
    [id |-> id, person_id |-> sub.person_id, title |-> Title(e.event_type),
     body |-> Body(e), event_type |-> e.event_type,
     entity_type |-> e.entity_type, entity_id |-> e.entity_id,
     is_read |-> FALSE, read_at |-> Null, is_active |-> TRUE]

\* fixed order in which a query returns the subscription rows
SubOrder == <<"s1", "s2">>

\* db.query(DocumentSubscription).filter(document_id ==, is_active).all()
ActiveSubscriptions(document_id) ==
    SelectSeq(SubOrder, LAMBDA s : subs[s].document_id = document_id
                                   /\ subs[s].is_active)

\* rows persist as soon as they are flushed
PersistedOnFlush(rows, raised, dbOk) == IF dbOk THEN rows ELSE <<>>

\* The rows of a fan-out run that persist: all of them when the run reaches
\* db.commit() and the commit succeeds; none when an exception ended the run
\* before (it is caught by the task, and db.close() rolls back).
Persisted(rows, raised, dbOk) == IF ~raised /\ dbOk THEN rows ELSE <<>>

\* no subscriber is taken for the actor
IsActorNever(sub, actor_id) == FALSE

\* `if actor_id and str(sub.person_id) == str(actor_id): continue`
IsActor(sub, actor_id) == Truthy(actor_id) /\ sub.person_id = actor_id

\* the loop of _dispatch over the loaded subscriptions: the rows it adds
RECURSIVE DispatchLoop(_, _, _, _)
DispatchLoop(ids, e, rows, id) ==
    IF ids = <<>> THEN rows
    ELSE LET sub == subs[Head(ids)] IN
         IF IsActor(sub, e.actor_id)
         THEN DispatchLoop(Tail(ids), e, rows, id)
         ELSE IF ~MatchesEvent(sub.event_types, e.event_type,
                               EventPrefix(e.event_type))
         THEN DispatchLoop(Tail(ids), e, rows, id)
         ELSE DispatchLoop(Tail(ids), e,
                           Append(rows, Notification(id, sub, e)), id + 1)

\* a fan-out that adds nothing for an event it has already notified about
DispatchOnce(e) ==
    IF \E i \in 1..Len(notifications) :
          /\ notifications[i].event_type = e.event_type
          /\ notifications[i].entity_id = e.entity_id
    THEN <<>>
    ELSE DispatchLoop(ActiveSubscriptions(e.document_id), e, <<>>,
                      nextId.notification)

\* _dispatch: rows pending in the session when db.commit() is reached
Dispatch(e) ==
    DispatchLoop(ActiveSubscriptions(e.document_id), e, <<>>,
                 nextId.notification)

\* dispatch_notifications run on arguments e; dbOk: the session's queries and
\* commit succeed. An exception of _dispatch is caught and logged, the
\* session is closed and its pending rows are rolled back.
DispatchNotificationsTask(e, dbOk) ==
    IF ~Truthy(e.document_id)
    THEN UNCHANGED <<notifications, nextId>>
    ELSE LET rows == Dispatch(e) IN
         /\ notifications' = notifications \o Persisted(rows, FALSE, dbOk)
         /\ nextId' = [nextId EXCEPT !.notification = @ + Len(rows)]

---------------------------------------------------------------------------
(* Webhook fan-out: app/tasks/webhooks.py *)

\* matching without the empty-list wildcard
EndpointMatchesListed(subscribed_types, event_type, event_prefix) ==
    \E i \in 1..Len(subscribed_types) :
        \/ subscribed_types[i] = event_type
        \/ subscribed_types[i] = event_prefix

\* _endpoint_matches: an empty list matches every event
EndpointMatches(subscribed_types, event_type, event_prefix) ==
    IF subscribed_types = <<>> THEN TRUE
    ELSE \E i \in 1..Len(subscribed_types) :
            \/ subscribed_types[i] = event_type
            \/ subscribed_types[i] = event_prefix

\* fixed order in which a query returns the endpoint rows
EndpointOrder == <<"w1", "w2">>

\* db.query(WebhookEndpoint).filter(is_active).all()
ActiveEndpoints == SelectSeq(EndpointOrder, LAMBDA w : endpoints[w].is_active)

\* event_data of _find_and_queue: the snapshot stored and sent
Snapshot(e) ==
    EventData(e.event_type, e.entity_type, e.entity_id, e.actor_id,
              e.document_id, OrEmptyMap(e.payload))

\* WebhookDelivery(...) with the column defaults of the model class
WebhookDelivery(ep_id, e) ==
    [endpoint_id |-> ep_id, event_type |-> e.event_type,
     payload |-> Snapshot(e), status |-> "pending",
     response_status_code |-> Null, response_body |-> Null,
     attempts |-> 0, last_attempt_at |-> Null, is_active |-> TRUE]

\* a message carrying the task's own arguments in place of event_data
DeliveryTaskRawArguments(task_id, root_id, delivery_id, ep, e) ==
    [id |-> task_id, root_id |-> root_id, delivery_id |-> delivery_id,
     url |-> ep.url, secret |-> ep.secret, payload |-> e,
     retries |-> 0, countdown |-> 0]

\* the message deliver_single_webhook.delay(...) puts on the queue
DeliveryTask(task_id, root_id, delivery_id, ep, e) ==
    [id |-> task_id, root_id |-> root_id, delivery_id |-> delivery_id,
     url |-> ep.url, secret |-> ep.secret, payload |-> Snapshot(e),
     retries |-> 0, countdown |-> 0]

\* The loop of _find_and_queue over the active endpoints. acc holds the rows
\* flushed to the session (id -> row), the tasks enqueued and whether a
\* .delay call raised; failAt is the number of the .delay call that raises
\* (0: none does). A raising call ends the loop.
RECURSIVE FindAndQueueLoop(_, _, _, _, _)
FindAndQueueLoop(ids, e, root_id, failAt, acc) ==
    IF ids = <<>> THEN acc
    ELSE LET ep == endpoints[Head(ids)] IN
         IF ~EndpointMatches(ep.event_types, e.event_type,
                             EventPrefix(e.event_type))
         THEN FindAndQueueLoop(Tail(ids), e, root_id, failAt, acc)
         ELSE LET n == Len(acc.rows)
                  did == nextId.delivery + n
                  row == [id |-> did, row |-> WebhookDelivery(Head(ids), e)]
                  task == DeliveryTask(nextId.task + Len(acc.tasks), root_id,
                                       did, ep, e)
              IN IF failAt = n + 1
                 THEN [acc EXCEPT !.rows = Append(@, row), !.raised = TRUE]
                 ELSE FindAndQueueLoop(Tail(ids), e, root_id, failAt,
                        [acc EXCEPT !.rows = Append(@, row),
                                    !.tasks = Append(@, task)])

\* _find_and_queue up to db.commit()
FindAndQueue(e, root_id, failAt) ==
    FindAndQueueLoop(ActiveEndpoints, e, root_id, failAt,
                     [rows |-> <<>>, tasks |-> <<>>, raised |-> FALSE])

Range(seq) == {seq[i] : i \in 1..Len(seq)}

\* deliver_webhooks run on arguments e. The rows persist only when no .delay
\* call raised and the commit succeeded; an exception is caught and logged
\* and the session closed, which rolls the flushed rows back. Tasks already
\* enqueued stay enqueued.
DeliverWebhooksTask(e, root_id, failAt, dbOk) ==
    LET r == FindAndQueue(e, root_id, failAt)
        kept == Persisted(r.rows, r.raised, dbOk)
        new == {kept[i].id : i \in 1..Len(kept)}
        rowOf(d) == (CHOOSE x \in Range(kept) : x.id = d).row
    IN /\ deliveries' =
            [d \in DOMAIN deliveries \cup new |->
                IF d \in new THEN rowOf(d) ELSE deliveries[d]]
       /\ deliveryQ' = deliveryQ \cup Range(r.tasks)
       /\ nextId' = [nextId EXCEPT !.delivery = @ + Len(r.rows),
                                   !.task = @ + Len(r.tasks)]

---------------------------------------------------------------------------
(* Delivery worker: deliver_single_webhook in app/tasks/webhooks.py *)

\* max_retries of the task decorator
MaxRetries == 5
\* base of the retry countdown, 10 * 2 ** retries
BaseDelay == 10
\* resp.text[:4000], str(e)[:4000]
MaxBodyChars == 4000

RECURSIVE Pow2(_)
Pow2(n) == IF n = 0 THEN 1 ELSE 2 * Pow2(n - 1)

\* order of the keys of the event_data dict
PayloadKeys == <<"event_type", "entity_type", "entity_id", "actor_id",
                 "document_id", "payload">>

\* json.dumps(payload, default=str): the members in insertion order
JsonDumps(payload) ==
    [i \in 1..Len(PayloadKeys) |-> <<PayloadKeys[i], payload[PayloadKeys[i]]>>]

\* str.encode(): the UTF-8 bytes of a text
Encode(text) == <<"utf-8", text>>

\* a digest that depends on the key alone
HmacSha256HexOfKey(key, msg) == <<"hmac-sha256-hex", key>>

\* hmac.new(key, msg, hashlib.sha256).hexdigest(), kept symbolic
HmacSha256Hex(key, msg) == <<"hmac-sha256-hex", key, msg>>

ContentType == "Content-Type" :> "application/json"

\* a signature header on every request, also without a secret
HeadersAlwaysSigned(secret, body) ==
    ContentType @@ ("X-Webhook-Signature" :>
                        HmacSha256Hex(Encode(secret), Encode(body)))

\* the request headers: the signature is added `if secret`
Headers(secret, body) ==
    IF Truthy(secret)
    THEN ContentType @@ ("X-Webhook-Signature" :>
                            HmacSha256Hex(Encode(secret), Encode(body)))
    ELSE ContentType

\* what client.post can do: return a response, or raise httpx.HTTPError /
\* OSError (connection failure, timeout)
StatusCodes == {200, 299, 300, 500}
HttpOutcomes ==
    [kind : {"response"}, status_code : StatusCodes, chars : {4001}]
    \cup [kind : {"error"}, status_code : {0}, chars : {25}]

\* text[:4000]
Truncate(text) == [text EXCEPT !.chars = IF @ > MaxBodyChars THEN MaxBodyChars ELSE @]

\* 300 taken into the success range
IsSuccessInclusive(status_code) == 200 <= status_code /\ status_code <= 300

\* 200 <= resp.status_code < 300
IsSuccess(status_code) == 200 <= status_code /\ status_code < 300

\* the attempt counted without its time being recorded
TouchCountOnly(row) == [row EXCEPT !.attempts = @ + 1]

\* delivery.attempts += 1; delivery.last_attempt_at = datetime.now(...)
Touch(row) == [row EXCEPT !.attempts = @ + 1, !.last_attempt_at = Some(now)]

\* the outcome written to the row, a failed row being deactivated as well
ClassifyDeactivating(row, outcome) ==
    IF outcome.kind = "response" /\ 200 <= outcome.status_code
       /\ outcome.status_code < 300
    THEN [row EXCEPT !.response_status_code = Some(outcome.status_code),
                     !.status = "success"]
    ELSE [row EXCEPT !.status = "failed", !.is_active = FALSE]

\* the try/except around client.post: the outcome written to the row
Classify(row, outcome) ==
    IF outcome.kind = "response"
    THEN [row EXCEPT !.response_status_code = Some(outcome.status_code),
                     !.response_body =
                         Some(Truncate([of |-> "resp.text",
                                        chars |-> outcome.chars])),
                     !.status = IF IsSuccess(outcome.status_code)
                                THEN "success" ELSE "failed"]
    ELSE [row EXCEPT !.status = "failed",
                     !.response_body =
                         Some(Truncate([of |-> "str(e)",
                                        chars |-> outcome.chars]))]

\* the row committed by one attempt
Attempted(row, outcome) == Classify(Touch(row), outcome)

\* a retry after every attempt, whatever its status
ShouldRetryAlways(status) == TRUE

\* `if delivery.status == WebhookDeliveryStatus.failed`
ShouldRetry(status) == status = "failed"

\* a retry is refused one retry early
RetryAllowedBelowMax(retries) == retries + 1 < MaxRetries

\* Task.retry raises MaxRetriesExceededError when request.retries + 1
\* exceeds max_retries, and re-sends the task otherwise
RetryAllowed(retries) == ~(retries + 1 > MaxRetries)

\* a constant countdown
CountdownConstant(retries) == BaseDelay

\* countdown=10 * (2 ** (self.request.retries or 0))
Countdown(retries) == BaseDelay * Pow2(retries)

\* a retry that looks the endpoint's url and secret up again
RetryTaskRefreshed(t, task_id) ==
    LET ep == endpoints[deliveries[t.delivery_id].endpoint_id] IN
    [t EXCEPT !.id = task_id, !.retries = @ + 1,
              !.countdown = Countdown(t.retries),
              !.url = ep.url, !.secret = ep.secret]

\* the task message self.retry sends: the same arguments, retries + 1
RetryTask(t, task_id) ==
    [t EXCEPT !.id = task_id, !.retries = @ + 1,
              !.countdown = Countdown(t.retries)]

\* f extended or overwritten at key k
Put(f, k, v) == [x \in DOMAIN f \cup {k} |-> IF x = k THEN v ELSE f[x]]

\* the sequence logged under k, empty when there is none
Logged(f, k) == IF k \in DOMAIN f THEN f[k] ELSE <<>>

\* a worker that re-sends the task when it finds no row
ReturnNotFoundRetrying(t) ==
    /\ deliveryQ' = IF RetryAllowed(t.retries)
                    THEN (deliveryQ \ {t}) \cup {RetryTask(t, nextId.task)}
                    ELSE deliveryQ \ {t}
    /\ nextId' = IF RetryAllowed(t.retries)
                 THEN [nextId EXCEPT !.task = @ + 1] ELSE nextId
    /\ UNCHANGED <<deliveries, posts, retryLog, lastAttempt, now>>

\* `if not delivery:` the error is logged and the task returns; the message
\* is done
ReturnNotFound(t) ==
    /\ deliveryQ' = deliveryQ \ {t}
    /\ UNCHANGED <<deliveries, posts, retryLog, lastAttempt, nextId, now>>

\* deliver_single_webhook run for the queued task t with the POST ending in
\* outcome. db.get sees the committed rows only.
DeliverSingleWebhookTask(t, outcome) ==
    LET body == JsonDumps(t.payload)
        headers == Headers(t.secret, body)
        d == t.delivery_id
    IN IF d \notin DOMAIN deliveries
       THEN ReturnNotFound(t)
       ELSE LET row == Attempted(deliveries[d], outcome)
                retry == ShouldRetry(row.status)
                resend == retry /\ RetryAllowed(t.retries)
            IN /\ deliveries' = [deliveries EXCEPT ![d] = row]
               /\ lastAttempt' = Put(lastAttempt, d,
                                     [at |-> now, outcome |-> outcome,
                                      n |-> IF d \in DOMAIN lastAttempt
                                            THEN lastAttempt[d].n + 1
                                            ELSE 1])
               /\ posts' = Put(posts, d,
                              Append(Logged(posts, d),
                                [url |-> t.url, headers |-> headers,
                                 content |-> Encode(body),
                                 secret |-> t.secret,
                                 retries |-> t.retries]))
               /\ retryLog' =
                    IF retry
                    THEN Put(retryLog, d,
                           Append(Logged(retryLog, d),
                             [retries |-> t.retries,
                              countdown |-> Countdown(t.retries),
                              scheduled |-> resend]))
                    ELSE retryLog
               /\ deliveryQ' =
                    IF resend
                    THEN (deliveryQ \ {t}) \cup {RetryTask(t, nextId.task)}
                    ELSE deliveryQ \ {t}
               /\ nextId' = IF resend
                            THEN [nextId EXCEPT !.task = @ + 1] ELSE nextId
               /\ now' = now + 1

\* the columns the worker assigns
WorkerColumns == {"attempts", "last_attempt_at", "status",
                  "response_status_code", "response_body"}

\* an UPDATE that increments the stored counter in the database
CommitRowIncrementing(current, loaded, local) ==
    [k \in DOMAIN current |->
        IF k = "attempts" THEN current[k] + 1
        ELSE IF k \in WorkerColumns /\ local[k] # loaded[k] THEN local[k]
        ELSE current[k]]

\* db.commit() of one invocation: the UPDATE sets the columns whose value
\* the invocation changed on the row it had loaded, to the values it
\* computed from that row; current is the row in the table at that moment
CommitRow(current, loaded, local) ==
    [k \in DOMAIN current |->
        IF k \in WorkerColumns /\ local[k] # loaded[k] THEN local[k]
        ELSE current[k]]

\* deliver_single_webhook up to db.commit(): worker process w loads the row
\* of task t, counts the attempt on its copy and makes the POST
BeginDeliveryTask(w, t, outcome) ==
    LET body == JsonDumps(t.payload)
        headers == Headers(t.secret, body)
        d == t.delivery_id
    IN IF d \notin DOMAIN deliveries
       THEN /\ deliveryQ' = deliveryQ \ {t}
            /\ UNCHANGED <<workers, posts, now>>
       ELSE /\ workers' = Put(workers, w,
                              [task |-> t, loaded |-> deliveries[d],
                               row |-> Attempted(deliveries[d], outcome)])
            /\ posts' = Put(posts, d,
                           Append(Logged(posts, d),
                             [url |-> t.url, headers |-> headers,
                              content |-> Encode(body), secret |-> t.secret,
                              retries |-> t.retries]))
            /\ now' = now + 1
            /\ UNCHANGED deliveryQ

\* deliver_single_webhook from db.commit() on: worker process w writes its
\* copy, calls self.retry when its attempt failed, and the message is done
CommitDeliveryTask(w) ==
    LET t == workers[w].task
        d == t.delivery_id
        row == CommitRow(deliveries[d], workers[w].loaded, workers[w].row)
        retry == ShouldRetry(workers[w].row.status)
        resend == retry /\ RetryAllowed(t.retries)
    IN /\ deliveries' = [deliveries EXCEPT ![d] = row]
       /\ lastAttempt' = Put(lastAttempt, d,
                             [at |-> workers[w].row.last_attempt_at[1],
                              outcome |-> workers[w].row.status,
                              n |-> workers[w].loaded.attempts + 1])
       /\ retryLog' =
            IF retry
            THEN Put(retryLog, d,
                   Append(Logged(retryLog, d),
                     [retries |-> t.retries,
                      countdown |-> Countdown(t.retries),
                      scheduled |-> resend]))
            ELSE retryLog
       /\ deliveryQ' =
            IF resend
            THEN (deliveryQ \ {t}) \cup {RetryTask(t, nextId.task)}
            ELSE deliveryQ \ {t}
       /\ nextId' = IF resend
                    THEN [nextId EXCEPT !.task = @ + 1] ELSE nextId
       /\ workers' = [x \in DOMAIN workers \ {w} |-> workers[x]]

---------------------------------------------------------------------------
(* Search-index trigger: app/tasks/search.py *)

\* a run without the early return on a missing document_id
SearchRunUnguarded(document_id, ok) ==
    [session |-> "closed", updates |-> <<document_id>>, failed |-> ~ok,
     raised |-> FALSE]

\* One run of update_search_index; ok: the collaborator returns normally.
\* Without document_id the task returns before a session is opened. The
\* collaborator's exception is caught and logged, and the finally clause
\* closes the session.
SearchRun(document_id, ok) ==
    IF ~Truthy(document_id)
    THEN [session |-> "none", updates |-> <<>>, failed |-> FALSE,
          raised |-> FALSE]
    ELSE [session |-> "closed", updates |-> <<document_id>>, failed |-> ~ok,
          raised |-> FALSE]

\* update_search_index run for the queued task t
UpdateSearchIndexTask(t, ok) ==
    LET r == SearchRun(t.document_id, ok) IN
    searchLog' = searchLog \cup
                   {[task_id |-> t.id, root_id |-> t.root_id,
                     document_id |-> t.document_id, session |-> r.session,
                     updates |-> r.updates, failed |-> r.failed,
                     raised |-> r.raised]}

---------------------------------------------------------------------------
(* Endpoint service: WebhookEndpoints in app/services/webhook.py *)

\* payload.model_dump(exclude_unset=True) of an update: the fields that were
\* set, as (key, value) pairs
EndpointUpdates ==
    { << <<"url", "https://c.example/hook">> >>,
      << <<"secret", "k2">> >>,
      << <<"event_types", << <<"comment">> >> >> >>,
      << <<"is_active", FALSE>>, <<"secret", None>> >> }

\* for key, value in data.items(): setattr(endpoint, key, value)
RECURSIVE SetAttrs(_, _)
SetAttrs(endpoint, data) ==
    IF data = <<>> THEN endpoint
    ELSE SetAttrs([endpoint EXCEPT ![Head(data)[1]] = Head(data)[2]],
                  Tail(data))

\* WebhookEndpoints.update: 404 when the endpoint does not exist
UpdateEndpointCall(endpoint_id, data) ==
    IF endpoint_id \notin DOMAIN endpoints
    THEN UNCHANGED endpoints
    ELSE endpoints' = [endpoints EXCEPT ![endpoint_id] = SetAttrs(@, data)]

\* WebhookEndpoints.delete: a soft delete, 404 when the endpoint does not
\* exist
DeleteEndpointCall(endpoint_id) ==
    IF endpoint_id \notin DOMAIN endpoints
    THEN UNCHANGED endpoints
    ELSE endpoints' = [endpoints EXCEPT ![endpoint_id].is_active = FALSE]

---------------------------------------------------------------------------
(* Event publisher: app/services/event.py *)

\* publish_event without its try/except: the enqueue failure reaches the caller
PublishResultUncaught(enqueueOk) ==
    [enqueued |-> enqueueOk, raised |-> ~enqueueOk]

\* how publish_event returns: `except Exception` logs and swallows the
\* failure of process_event.delay
PublishResult(enqueueOk) == [enqueued |-> enqueueOk, raised |-> FALSE]

\* Python objects passed for an id: a uuid.UUID, a str, or None, each with
\* the string str() gives for it
Uuid(x) == <<"UUID", x>>
PyStr(x) == <<"str", x>>
PyNone == <<"NoneType", None>>

\* str(v)
Str(v) == v[2]

\* truthiness of an id object: None and the empty str are falsy
TruthyObject(v) == v[1] = "UUID" \/ (v[1] = "str" /\ v[2] # "")

\* members of the enum EventType, by name
EventTypeMembers ==
    {"document_created", "comment_created", "document_checked_out"}

DocumentCheckedOut == <<"document", "checked_out">>

\* EventType.value
Value(member) ==
    CASE member = "document_created" -> DocumentCreated
      [] member = "comment_created" -> CommentCreated
      [] member = "document_checked_out" -> DocumentCheckedOut

\* the payload passed on as given
PublishArgsRawPayload(event_type, entity_type, entity_id, actor_id, document_id, payload) ==
    EventData(Value(event_type), entity_type, Str(entity_id),
              IF TruthyObject(actor_id) THEN Str(actor_id) ELSE None,
              IF TruthyObject(document_id) THEN Str(document_id) ELSE None,
              payload)

\* the keyword arguments publish_event passes to process_event.delay
PublishArgs(event_type, entity_type, entity_id, actor_id, document_id, payload) ==
    EventData(Value(event_type), entity_type, Str(entity_id),
              IF TruthyObject(actor_id) THEN Str(actor_id) ELSE None,
              IF TruthyObject(document_id) THEN Str(document_id) ELSE None,
              OrEmptyMap(payload))

\* publish_event called with the given arguments
PublishEventCall(event_type, entity_type, entity_id, actor_id, document_id, payload, enqueueOk) ==
    LET r == PublishResult(enqueueOk)
        args == PublishArgs(event_type, entity_type, entity_id, actor_id,
                            document_id, payload)
        task == [id |-> nextId.task, root_id |-> nextId.task, args |-> args]
    IN /\ eventQ' = IF r.enqueued THEN eventQ \cup {task} ELSE eventQ
       /\ nextId' = IF r.enqueued THEN [nextId EXCEPT !.task = @ + 1]
                    ELSE nextId
       /\ published' = Append(published,
                         [entity_id |-> Str(entity_id), enqueued |-> r.enqueued,
                          raised |-> r.raised,
                          task_id |-> IF r.enqueued THEN Some(nextId.task)
                                      ELSE Null])

---------------------------------------------------------------------------
(* Event dispatcher: app/tasks/events.py *)

Channels == {"notifications", "webhooks", "search"}

\* the order in which process_event calls the three helpers
ChannelOrder == <<"notifications", "webhooks", "search">>

NotCalled == [called |-> FALSE, enqueued |-> FALSE, raised |-> FALSE]

\* a fan-out helper without its try/except: the failure of .delay propagates
FanoutUncaught(channel, fail) ==
    [called |-> TRUE, enqueued |-> channel \notin fail,
     raised |-> channel \in fail]

\* _fanout_notifications, _fanout_webhooks, _fanout_search: the .delay call
\* inside try/except Exception; fail is the set of channels whose .delay
\* raises
Fanout(channel, fail) ==
    [called |-> TRUE, enqueued |-> channel \notin fail, raised |-> FALSE]

\* a run that never calls the search helper
ProcessEventRunWithoutSearch(fail) ==
    LET n == Fanout("notifications", fail)
        w == IF n.raised THEN NotCalled ELSE Fanout("webhooks", fail)
    IN [notifications |-> n, webhooks |-> w, search |-> NotCalled,
        raised |-> n.raised \/ w.raised]

\* the three helper calls of process_event in order; a raising call ends it
ProcessEventRun(fail) ==
    LET n == Fanout("notifications", fail)
        w == IF n.raised THEN NotCalled ELSE Fanout("webhooks", fail)
        s == IF n.raised \/ w.raised THEN NotCalled
             ELSE Fanout("search", fail)
    IN [notifications |-> n, webhooks |-> w, search |-> s,
        raised |-> n.raised \/ w.raised \/ s.raised]

\* process_event run for the queued task t
ProcessEventTask(t, fail) ==
    LET event_data == [t.args EXCEPT !.payload = OrEmptyMap(@)]
        r == ProcessEventRun(fail)
        nid == nextId.task
        wid == nid + (IF r.notifications.enqueued THEN 1 ELSE 0)
        sid == wid + (IF r.webhooks.enqueued THEN 1 ELSE 0)
        last == sid + (IF r.search.enqueued THEN 1 ELSE 0)
    IN /\ notificationQ' =
            IF r.notifications.enqueued
            THEN notificationQ \cup
                   {[id |-> nid, root_id |-> t.root_id, args |-> event_data]}
            ELSE notificationQ
       /\ webhookQ' =
            IF r.webhooks.enqueued
            THEN webhookQ \cup
                   {[id |-> wid, root_id |-> t.root_id, args |-> event_data]}
            ELSE webhookQ
       /\ searchQ' =
            IF r.search.enqueued
            THEN searchQ \cup
                   {[id |-> sid, root_id |-> t.root_id,
                     document_id |-> event_data.document_id,
                     event_type |-> event_data.event_type]}
            ELSE searchQ
       /\ nextId' = [nextId EXCEPT !.task = last]
       /\ processLog' = processLog \cup
                          {[task_id |-> t.id, root_id |-> t.root_id,
                           fail |-> fail,
                           called |-> SelectSeq(ChannelOrder,
                                                LAMBDA c : r[c].called),
                           enqueued |-> {c \in Channels : r[c].enqueued},
                           raised |-> r.raised]}

---------------------------------------------------------------------------
(* Actions: callers of publish_event and the queue workers *)

\* the calls of publish_event the model makes, each about a fresh entity
PublishCalls ==
    { EventData("document_created", "document", 0, Uuid("p1"), Uuid("d1"),
                None),
      EventData("comment_created", "comment", 0, PyNone, Uuid("d1"),
                EmptyMap),
      EventData("document_created", "document", 0, Uuid("p2"), PyNone,
                None) }

\* a mutation publishes an event about a fresh entity
PublishEvent ==
    \E c \in PublishCalls, enqueueOk \in BOOLEAN :
        /\ Len(published) < MaxPublish
        /\ PublishEventCall(c.event_type, c.entity_type,
                            Uuid(Len(published) + 1),
                            c.actor_id, c.document_id, c.payload, enqueueOk)
        /\ UNCHANGED <<subs, endpoints, notifications, deliveries,
                       notificationQ, webhookQ, searchQ, deliveryQ, now,
                       processLog, searchLog, posts, retryLog, lastAttempt,
                       lastCall, calls>>
        /\ UNCHANGED <<workers, endpointOps, lastOp, sessions,
                       entities>>

\* a worker takes a process_event task
ProcessEvent ==
    \E t \in eventQ, fail \in SUBSET Channels :
        /\ eventQ' = eventQ \ {t}
        /\ ProcessEventTask(t, fail)
        /\ UNCHANGED <<subs, endpoints, notifications, deliveries,
                       deliveryQ, now, published, searchLog, posts,
                       retryLog, lastAttempt,
                       lastCall, calls>>
        /\ UNCHANGED <<workers, endpointOps, lastOp, sessions,
                       entities>>

\* a worker takes a dispatch_notifications task
DispatchNotifications ==
    \E t \in notificationQ, dbOk \in BOOLEAN :
        /\ notificationQ' = notificationQ \ {t}
        /\ DispatchNotificationsTask(t.args, dbOk)
        /\ UNCHANGED <<subs, endpoints, deliveries, eventQ, webhookQ,
                       searchQ, deliveryQ, now, published, processLog,
                       searchLog, posts, retryLog, lastAttempt,
                       lastCall, calls>>
        /\ UNCHANGED <<workers, endpointOps, lastOp, sessions,
                       entities>>

\* a worker takes a deliver_webhooks task
DeliverWebhooks ==
    \E t \in webhookQ, failAt \in 0..Len(EndpointOrder), dbOk \in BOOLEAN :
        /\ webhookQ' = webhookQ \ {t}
        /\ DeliverWebhooksTask(t.args, t.root_id, failAt, dbOk)
        /\ UNCHANGED <<subs, endpoints, notifications, eventQ,
                       notificationQ, searchQ, now, published, processLog,
                       searchLog, posts, retryLog, lastAttempt,
                       lastCall, calls>>
        /\ UNCHANGED <<workers, endpointOps, lastOp, sessions,
                       entities>>

\* a worker takes an update_search_index task
UpdateSearchIndex ==
    \E t \in searchQ, ok \in BOOLEAN :
        /\ searchQ' = searchQ \ {t}
        /\ UpdateSearchIndexTask(t, ok)
        /\ UNCHANGED <<subs, endpoints, notifications, deliveries, eventQ,
                       notificationQ, webhookQ, deliveryQ, nextId, now,
                       published, processLog, posts, retryLog, lastAttempt,
                       lastCall, calls>>
        /\ UNCHANGED <<workers, endpointOps, lastOp, sessions,
                       entities>>

\* a worker takes a deliver_single_webhook task
DeliverSingleWebhook ==
    \E t \in deliveryQ, outcome \in HttpOutcomes :
        /\ DeliverSingleWebhookTask(t, outcome)
        /\ UNCHANGED <<subs, endpoints, notifications, eventQ,
                       notificationQ, webhookQ, searchQ, published,
                       processLog, searchLog, lastCall, calls>>
        /\ UNCHANGED <<workers, endpointOps, lastOp, sessions,
                       entities>>

\* the record kept of a direct invocation of a fan-out task: its arguments,
\* the first row id it could allocate, whether it committed, and the number
\* of committed runs on these arguments
Called(task, e, firstId, committed) ==
    [task |-> task, args |-> e, firstId |-> firstId, committed |-> committed,
     runs |-> IF committed THEN 1 ELSE 0]

\* arguments of a directly invoked fan-out task
TaskEvents ==
    {EventData(event_type, "document", 1, actor_id, document_id, payload) :
        event_type \in TaskEventTypes, actor_id \in {None} \cup Persons,
        document_id \in {None} \cup Documents, payload \in {EmptyMap}}

\* dispatch_notifications invoked directly
CallDispatchNotifications ==
    \E e \in TaskEvents, dbOk \in BOOLEAN :
        /\ calls < MaxCalls
        /\ calls' = calls + 1
        /\ DispatchNotificationsTask(e, dbOk)
        /\ lastCall' = Called("dispatch_notifications", e, nextId.notification,
                               Truthy(e.document_id) /\ dbOk)
        /\ UNCHANGED <<subs, endpoints, deliveries, eventQ, notificationQ,
                       webhookQ, searchQ, deliveryQ, now, published,
                       processLog, searchLog, posts, retryLog, lastAttempt>>
        /\ UNCHANGED <<workers, endpointOps, lastOp, sessions,
                       entities>>

\* arguments of a directly invoked deliver_webhooks
WebhookTaskEvents ==
    {EventData(event_type, "document", 1, actor_id, document_id, payload) :
        event_type \in TaskEventTypes, actor_id \in {None, "p1"},
        document_id \in {None, "d1"}, payload \in Payloads}

\* deliver_webhooks invoked directly
CallDeliverWebhooks ==
    \E e \in WebhookTaskEvents, failAt \in 0..Len(EndpointOrder), dbOk \in BOOLEAN :
        /\ calls < MaxCalls
        /\ calls' = calls + 1
        /\ DeliverWebhooksTask(e, 0, failAt, dbOk)
        /\ lastCall' = Called("deliver_webhooks", e, nextId.delivery,
                               ~FindAndQueue(e, 0, failAt).raised /\ dbOk)
        /\ UNCHANGED <<subs, endpoints, notifications, eventQ,
                       notificationQ, webhookQ, searchQ, now, published,
                       processLog, searchLog, posts, retryLog, lastAttempt>>
        /\ UNCHANGED <<workers, endpointOps, lastOp, sessions,
                       entities>>

\* events whose deliveries the delivery worker is followed on
DeliveryEvents ==
    {EventData(DocumentCreated, "document", 1, None, document_id, payload) :
        document_id \in {None, "d1"}, payload \in {None}}

\* deliver_webhooks invoked directly on one of DeliveryEvents
QueueDeliveries ==
    \E e \in DeliveryEvents, failAt \in 0..1, dbOk \in BOOLEAN :
        /\ calls < MaxCalls
        /\ calls' = calls + 1
        /\ DeliverWebhooksTask(e, 0, failAt, dbOk)
        /\ lastCall' = Called("deliver_webhooks", e, nextId.delivery,
                               ~FindAndQueue(e, 0, failAt).raised /\ dbOk)
        /\ UNCHANGED <<subs, endpoints, notifications, eventQ,
                       notificationQ, webhookQ, searchQ, now, published,
                       processLog, searchLog, posts, retryLog, lastAttempt>>
        /\ UNCHANGED <<workers, endpointOps, lastOp, sessions,
                       entities>>

\* arguments of the fan-out tasks when both are run on shared lists
FanoutEvents ==
    {EventData(event_type, "document", 1, actor_id, document_id, None) :
        event_type \in TaskEventTypes, actor_id \in {None, "p1"},
        document_id \in {None, "d1"}}

\* dispatch_notifications invoked directly on one of FanoutEvents
RunDispatchNotifications ==
    \E e \in FanoutEvents, dbOk \in BOOLEAN :
        /\ calls < MaxCalls
        /\ calls' = calls + 1
        /\ DispatchNotificationsTask(e, dbOk)
        /\ lastCall' = Called("dispatch_notifications", e, nextId.notification,
                               Truthy(e.document_id) /\ dbOk)
        /\ UNCHANGED <<subs, endpoints, deliveries, eventQ, notificationQ,
                       webhookQ, searchQ, deliveryQ, now, published,
                       processLog, searchLog, posts, retryLog, lastAttempt,
                       workers, endpointOps, lastOp, sessions,
                       entities>>

\* deliver_webhooks invoked directly on one of FanoutEvents
RunDeliverWebhooks ==
    \E e \in FanoutEvents, failAt \in 0..Len(EndpointOrder), dbOk \in BOOLEAN :
        /\ calls < MaxCalls
        /\ calls' = calls + 1
        /\ DeliverWebhooksTask(e, 0, failAt, dbOk)
        /\ lastCall' = Called("deliver_webhooks", e, nextId.delivery,
                               ~FindAndQueue(e, 0, failAt).raised /\ dbOk)
        /\ UNCHANGED <<subs, endpoints, notifications, eventQ,
                       notificationQ, webhookQ, searchQ, now, published,
                       processLog, searchLog, posts, retryLog, lastAttempt,
                       workers, endpointOps, lastOp, sessions,
                       entities>>

\* dispatch_notifications run once more for the event of the behaviour (any
\* of TaskEvents at the first run)
RedispatchNotifications ==
    \E e \in TaskEvents, dbOk \in BOOLEAN :
        LET committed == Truthy(e.document_id) /\ dbOk IN
        /\ calls < MaxRuns
        /\ calls > 0 => e = lastCall.args
        /\ calls' = calls + 1
        /\ DispatchNotificationsTask(e, dbOk)
        /\ lastCall' =
             IF calls = 0
             THEN Called("dispatch_notifications", e, nextId.notification,
                         committed)
             ELSE [lastCall EXCEPT !.committed = committed,
                                   !.runs = @ + (IF committed THEN 1 ELSE 0)]
        /\ UNCHANGED <<subs, endpoints, deliveries, eventQ, notificationQ,
                       webhookQ, searchQ, deliveryQ, now, published,
                       processLog, searchLog, posts, retryLog, lastAttempt,
                       workers, endpointOps, lastOp, sessions,
                       entities>>

\* the worker processes that run deliver_single_webhook concurrently
Workers == {"c1", "c2"}

\* An idle worker process receives a queued deliver_single_webhook message
\* and runs the task up to its commit. The message stays queued until an
\* invocation of it has ended (at-least-once delivery), so another process
\* can receive it meanwhile.
BeginDelivery ==
    \E w \in Workers \ DOMAIN workers, t \in deliveryQ,
       outcome \in HttpOutcomes :
        /\ now <= MaxAttemptsFollowed
        /\ BeginDeliveryTask(w, t, outcome)
        /\ UNCHANGED <<subs, endpoints, notifications, deliveries, eventQ,
                       notificationQ, webhookQ, searchQ, nextId, published,
                       processLog, searchLog, retryLog, lastAttempt,
                       lastCall, calls, endpointOps, lastOp, sessions,
                       entities>>

\* a worker process commits and ends its invocation
CommitDelivery ==
    \E w \in DOMAIN workers :
        /\ CommitDeliveryTask(w)
        /\ UNCHANGED <<subs, endpoints, notifications, eventQ,
                       notificationQ, webhookQ, searchQ, now, published,
                       processLog, searchLog, posts, lastCall, calls,
                       endpointOps, lastOp, sessions,
                       entities>>

\* identifiers an endpoint operation is called with: the rows and an
\* unknown one
EndpointIds == {"w1", "w2", "w9"}

\* an API client updates an endpoint
UpdateEndpoint ==
    \E endpoint_id \in EndpointIds, data \in EndpointUpdates :
        /\ endpointOps < MaxEndpointOps
        /\ endpointOps' = endpointOps + 1
        /\ UpdateEndpointCall(endpoint_id, data)
        /\ UNCHANGED <<subs, notifications, deliveries, eventQ,
                       notificationQ, webhookQ, searchQ, deliveryQ, nextId,
                       now, published, processLog, searchLog, posts,
                       retryLog, lastAttempt, lastCall, calls, workers,
                       lastOp, sessions, entities>>

\* an API client deletes an endpoint
DeleteEndpoint ==
    \E endpoint_id \in EndpointIds :
        /\ endpointOps < MaxEndpointOps
        /\ endpointOps' = endpointOps + 1
        /\ DeleteEndpointCall(endpoint_id)
        /\ UNCHANGED <<subs, notifications, deliveries, eventQ,
                       notificationQ, webhookQ, searchQ, deliveryQ, nextId,
                       now, published, processLog, searchLog, posts,
                       retryLog, lastAttempt, lastCall, calls, workers,
                       lastOp, sessions, entities>>

\* a worker takes a deliver_single_webhook task, among the first
\* MaxAttemptsFollowed attempts of a behaviour
AttemptDelivery ==
    /\ now <= MaxAttemptsFollowed
    /\ DeliverSingleWebhook

---------------------------------------------------------------------------
(* Initial states *)

Subscription(document_id, person_id, event_types, is_active) ==
    [document_id |-> document_id, person_id |-> person_id,
     event_types |-> event_types, is_active |-> is_active]

Endpoint(url, secret, event_types, is_active) ==
    [url |-> url, secret |-> secret, event_types |-> event_types,
     is_active |-> is_active]

\* empty queues, logs and row tables
InitEmpty ==
    /\ notifications = <<>>
    /\ deliveries = [d \in {} |-> 0]
    /\ eventQ = {} /\ notificationQ = {} /\ webhookQ = {}
    /\ searchQ = {} /\ deliveryQ = {}
    /\ nextId = [task |-> 1, notification |-> 1, delivery |-> 1]
    /\ now = 1
    /\ published = <<>> /\ processLog = {} /\ searchLog = {}
    /\ posts = [d \in {} |-> 0] /\ retryLog = [d \in {} |-> 0]
    /\ lastAttempt = [d \in {} |-> 0]
    /\ lastCall = [task |-> None, args |-> None, firstId |-> 0,
                   committed |-> FALSE, runs |-> 0]
    /\ calls = 0
    /\ workers = [w \in {} |-> 0]
    /\ endpointOps = 0
    /\ lastOp = [op |-> None, args |-> None, result |-> None]
    /\ sessions = [s \in {} |-> 0]
    /\ entities = {}

\* two subscribers of d1, a wildcard endpoint with a secret and a selective
\* endpoint without one
Init ==
    /\ InitEmpty
    /\ subs = [s \in {"s1", "s2"} |->
                 IF s = "s1"
                 THEN Subscription("d1", "p1", << <<"document">> >>, TRUE)
                 ELSE Subscription("d1", "p2", << CommentCreated >>, TRUE)]
    /\ endpoints = [w \in {"w1", "w2"} |->
                 IF w = "w1"
                 THEN Endpoint("https://a.example/hook", "k1", <<>>, TRUE)
                 ELSE Endpoint("https://b.example/hook", None,
                               << <<"comment">> >>, TRUE)]

\* any two subscriptions of distinct (document, person) pairs
InitNotify ==
    /\ InitEmpty
    /\ \E doc \in Documents, t1 \in EventTypeLists, t2 \in EventTypeLists,
          a1 \in BOOLEAN, a2 \in BOOLEAN :
          subs = [s \in {"s1", "s2"} |->
                    IF s = "s1" THEN Subscription("d1", "p1", t1, a1)
                    ELSE Subscription(doc, "p2", t2, a2)]
    /\ endpoints = [w \in {"w1", "w2"} |->
                 Endpoint("https://a.example/hook", None, <<>>, FALSE)]

\* any two endpoints
InitWebhooks ==
    /\ InitEmpty
    /\ subs = [s \in {"s1", "s2"} |->
                 Subscription("d1", IF s = "s1" THEN "p1" ELSE "p2",
                              <<>>, FALSE)]
    /\ \E s1 \in {None, "k1"}, t1 \in EventTypeLists, t2 \in EventTypeLists,
          a1 \in BOOLEAN, a2 \in BOOLEAN :
          endpoints = [w \in {"w1", "w2"} |->
                    IF w = "w1"
                    THEN Endpoint("https://a.example/hook", s1, t1, a1)
                    ELSE Endpoint("https://b.example/hook", None, t2, a2)]

\* one wildcard endpoint with any secret, and one that matches no event of
\* DeliveryEvents
InitDelivery ==
    /\ InitEmpty
    /\ subs = [s \in {"s1", "s2"} |->
                 Subscription("d1", IF s = "s1" THEN "p1" ELSE "p2",
                              <<>>, FALSE)]
    /\ \E secret \in {None, "", "k1"} :
          endpoints = [w \in {"w1", "w2"} |->
                    IF w = "w1"
                    THEN Endpoint("https://a.example/hook", secret, <<>>, TRUE)
                    ELSE Endpoint("https://b.example/hook", None,
                                  << <<"comment">> >>, TRUE)]

\* a wildcard endpoint with a secret and an endpoint that matches no event
\* of DeliveryEvents
InitFrame ==
    /\ InitEmpty
    /\ subs = [s \in {"s1", "s2"} |->
                 Subscription("d1", IF s = "s1" THEN "p1" ELSE "p2",
                              <<>>, FALSE)]
    /\ endpoints = [w \in {"w1", "w2"} |->
                 IF w = "w1"
                 THEN Endpoint("https://a.example/hook", "k1", <<>>, TRUE)
                 ELSE Endpoint("https://b.example/hook", None,
                               << <<"comment">> >>, TRUE)]

\* event_types lists that a subscription and an endpoint share
MatchLists ==
    { <<>>,
      << <<"document">> >>,
      << DocumentCreated >>,
      << <<"document", "version">> >>,
      << <<"comment">>, DocumentVersionCreated >> }

\* two active subscribers of d1 and two active endpoints, the first
\* subscription and the first endpoint holding one list, the second ones
\* another
InitFanout ==
    /\ InitEmpty
    /\ \E t1 \in MatchLists, t2 \in MatchLists :
          /\ subs = [s \in {"s1", "s2"} |->
                       IF s = "s1" THEN Subscription("d1", "p1", t1, TRUE)
                       ELSE Subscription("d1", "p2", t2, TRUE)]
          /\ endpoints = [w \in {"w1", "w2"} |->
                       IF w = "w1"
                       THEN Endpoint("https://a.example/hook", "k1", t1, TRUE)
                       ELSE Endpoint("https://b.example/hook", None, t2, TRUE)]

---------------------------------------------------------------------------
(* Specifications *)

\* publication and fan-out of events
Next ==
    \/ PublishEvent
    \/ ProcessEvent
    \/ DispatchNotifications
    \/ DeliverWebhooks
    \/ UpdateSearchIndex

Spec == Init /\ [][Next]_vars

\* the notification fan-out task on any subscriptions
NextNotify == CallDispatchNotifications

SpecNotify == InitNotify /\ [][NextNotify]_vars

\* the webhook fan-out task on any endpoints
NextWebhooks == CallDeliverWebhooks

SpecWebhooks == InitWebhooks /\ [][NextWebhooks]_vars

\* the delivery worker on the deliveries of a fan-out
NextDelivery ==
    \/ QueueDeliveries
    \/ DeliverSingleWebhook

SpecDelivery == InitDelivery /\ [][NextDelivery]_vars

\* the delivery worker while endpoints are updated and deleted
NextFrame ==
    \/ QueueDeliveries
    \/ AttemptDelivery
    \/ UpdateEndpoint
    \/ DeleteEndpoint

SpecFrame == InitFrame /\ [][NextFrame]_vars

\* the two fan-out tasks on subscriptions and endpoints with shared lists
NextFanout ==
    \/ RunDispatchNotifications
    \/ RunDeliverWebhooks

SpecFanout == InitFanout /\ [][NextFanout]_vars

\* the notification fan-out run repeatedly for one event
NextRedispatch == RedispatchNotifications

SpecRedispatch == InitNotify /\ [][NextRedispatch]_vars

\* the delivery worker run by two processes, each invocation in two steps
NextRace ==
    \/ QueueDeliveries
    \/ BeginDelivery
    \/ CommitDelivery

SpecRace == InitFrame /\ [][NextRace]_vars

---------------------------------------------------------------------------
(* Properties *)

\* x is a member of the list
Contains(list, x) == \E i \in 1..Len(list) : list[i] = x

\* the text of a dotted string before its first dot
Prefix(event_type) == <<event_type[1]>>

\* the subscription s is one the event e must notify
Qualifies(s, e) ==
    /\ subs[s].is_active
    /\ subs[s].document_id = e.document_id
    /\ subs[s].person_id # e.actor_id
    /\ \/ Contains(subs[s].event_types, e.event_type)
       \/ Contains(subs[s].event_types, Prefix(e.event_type))

\* the notifications added by the latest direct invocation
NewNotifications ==
    {i \in 1..Len(notifications) : notifications[i].id >= lastCall.firstId}

\* C1: a notification fan-out that commits, run for an event with a
\* document_id, creates exactly one Notification per qualifying subscription
\* (active, on the event's document, not the actor's, listing the event type
\* or its prefix), for that subscription's person and with the event's type,
\* and creates no other Notification.
C1_NotificationFanout ==
    lastCall.committed =>
        LET e == lastCall.args IN
        /\ \A s \in DOMAIN subs :
              Qualifies(s, e) =>
                 Cardinality({i \in NewNotifications :
                     notifications[i].person_id = subs[s].person_id}) = 1
        /\ \A i \in NewNotifications :
              /\ notifications[i].event_type = e.event_type
              /\ \E s \in DOMAIN subs :
                    /\ Qualifies(s, e)
                    /\ notifications[i].person_id = subs[s].person_id
        /\ Cardinality(NewNotifications) =
              Cardinality({s \in DOMAIN subs : Qualifies(s, e)})

\* C1 witness: a committed fan-out notified one subscriber through the
\* prefix of the event type and passed over another active subscription
C1_Witness ==
    /\ lastCall.committed
    /\ Cardinality(NewNotifications) = 1
    /\ \E s \in DOMAIN subs :
          /\ Qualifies(s, lastCall.args)
          /\ ~Contains(subs[s].event_types, lastCall.args.event_type)
    /\ \E s \in DOMAIN subs :
          subs[s].is_active /\ ~Qualifies(s, lastCall.args)

\* the endpoint w is one the event e must be delivered to
EndpointQualifies(w, e) ==
    /\ endpoints[w].is_active
    /\ \/ endpoints[w].event_types = <<>>
       \/ Contains(endpoints[w].event_types, e.event_type)
       \/ Contains(endpoints[w].event_types, Prefix(e.event_type))

\* the deliveries added by the latest direct invocation
NewDeliveries == {d \in DOMAIN deliveries : d >= lastCall.firstId}

\* C2: a webhook fan-out that commits creates exactly one WebhookDelivery,
\* pending with attempts 0, per active endpoint whose event_types is empty or
\* lists the event type or its prefix, and none for any other endpoint.
C2_WebhookFanout ==
    lastCall.committed =>
        LET e == lastCall.args IN
        /\ \A w \in DOMAIN endpoints :
              EndpointQualifies(w, e) =>
                 Cardinality({d \in NewDeliveries :
                     deliveries[d].endpoint_id = w}) = 1
        /\ \A d \in NewDeliveries :
              /\ deliveries[d].status = "pending"
              /\ deliveries[d].attempts = 0
              /\ EndpointQualifies(deliveries[d].endpoint_id, e)

\* C2 witness: a committed fan-out created a delivery for an endpoint with
\* an empty list and none for another active endpoint
C2_Witness ==
    /\ lastCall.committed
    /\ Cardinality(NewDeliveries) = 1
    /\ \E d \in NewDeliveries :
          endpoints[deliveries[d].endpoint_id].event_types = <<>>
    /\ \E w \in DOMAIN endpoints :
          endpoints[w].is_active /\ ~EndpointQualifies(w, lastCall.args)

\* the task ids of the process_event tasks that publish_event enqueued
PublishedRoots ==
    {published[i].task_id[1] :
        i \in {j \in 1..Len(published) : published[j].enqueued}}

\* nothing in the system stems from the event about entity ent
NoTrace(ent) ==
    /\ \A t \in eventQ \cup notificationQ \cup webhookQ :
          t.args.entity_id # ent
    /\ \A t \in deliveryQ : t.payload.entity_id # ent
    /\ \A i \in 1..Len(notifications) : notifications[i].entity_id # ent
    /\ \A d \in DOMAIN deliveries : deliveries[d].payload.entity_id # ent

\* C3: publish_event never raises; an event whose enqueue failed leaves no
\* task, Notification or WebhookDelivery, and every dispatcher run and
\* search-index update stems from an event whose enqueue succeeded.
C3_PublishNeverRaises ==
    /\ \A i \in 1..Len(published) :
          /\ ~published[i].raised
          /\ ~published[i].enqueued => NoTrace(published[i].entity_id)
    /\ \A r \in processLog : r.root_id \in PublishedRoots
    /\ \A t \in searchQ : t.root_id \in PublishedRoots
    /\ \A u \in searchLog : u.root_id \in PublishedRoots

\* C3 witness: a publish_event call whose enqueue failed has returned
C3_Witness ==
    \E i \in 1..Len(published) :
        ~published[i].enqueued /\ ~published[i].raised

\* the number of times channel c occurs in a sequence of calls
Count(c, called) == Cardinality({i \in 1..Len(called) : called[i] = c})

\* C4: whatever set of channels fails to enqueue, process_event does not
\* raise and every other channel is invoked exactly once and its task
\* enqueued.
C4_ChannelIsolation ==
    \A r \in processLog :
        /\ ~r.raised
        /\ \A c \in Channels \ r.fail :
              Count(c, r.called) = 1 /\ c \in r.enqueued

\* C4 witness: the notification fan-out failed to enqueue and the webhook
\* and search tasks of the same envelope are queued
C4_Witness ==
    \E r \in processLog :
        /\ r.fail = {"notifications"}
        /\ \E t \in webhookQ : t.root_id = r.root_id
        /\ \E t \in searchQ : t.root_id = r.root_id

\* a deliver_single_webhook task for delivery d is queued
Scheduled(d) == \E t \in deliveryQ : t.delivery_id = d

\* the deliveries that have been attempted
AttemptedDeliveries == {d \in DOMAIN deliveries : deliveries[d].attempts > 0}

\* C5 as stated: a delivery failing on every attempt ends failed with
\* attempts == 5 after exactly 5 POSTs, and no retry is scheduled after that.
C5_FailsAfterFiveAttempts ==
    \A d \in AttemptedDeliveries :
        (deliveries[d].status = "failed" /\ deliveries[d].attempts >= 5) =>
            /\ deliveries[d].attempts = 5
            /\ Len(Logged(posts, d)) = 5
            /\ ~Scheduled(d)

\* C5 amended: a failed delivery has a retry scheduled exactly while it has
\* been attempted fewer than 6 times (the first attempt and max_retries = 5
\* retries); a delivery failing on every attempt ends failed with
\* attempts == 6 after exactly 6 POSTs, the last self.retry being refused.
C5_FailsAfterSixAttempts ==
    \A d \in AttemptedDeliveries :
        deliveries[d].status = "failed" =>
            /\ deliveries[d].attempts <= 6
            /\ Len(Logged(posts, d)) = deliveries[d].attempts
            /\ Scheduled(d) <=> deliveries[d].attempts < 6
            /\ ~Scheduled(d) =>
                  ~retryLog[d][Len(retryLog[d])].scheduled

\* C5 witness: a delivery has failed six times and nothing is scheduled
C5_Witness ==
    \E d \in AttemptedDeliveries :
        /\ deliveries[d].status = "failed"
        /\ deliveries[d].attempts = 6
        /\ Len(posts[d]) = 6
        /\ ~Scheduled(d)

\* C6: after the N-th invocation of the worker on a delivery, whatever the
\* outcomes, attempts is N and last_attempt_at is the time of the N-th
\* invocation; a step changes attempts by nothing or by exactly one.
C6_AttemptsCountInvocations ==
    /\ [](\A d \in DOMAIN deliveries :
            IF d \in DOMAIN lastAttempt
            THEN /\ deliveries[d].attempts = lastAttempt[d].n
                 /\ deliveries[d].last_attempt_at = Some(lastAttempt[d].at)
            ELSE /\ deliveries[d].attempts = 0
                 /\ deliveries[d].last_attempt_at = Null)
    /\ [][\A d \in DOMAIN deliveries :
            \/ deliveries'[d].attempts = deliveries[d].attempts
            \/ /\ deliveries'[d].attempts = deliveries[d].attempts + 1
               /\ lastAttempt'[d].n = deliveries[d].attempts + 1]_vars

\* C6 witness: a delivery attempted three times, failing and then succeeding
C6_Witness ==
    \E d \in AttemptedDeliveries :
        /\ deliveries[d].attempts = 3
        /\ lastAttempt[d].n = 3
        /\ deliveries[d].status = "success"
        /\ deliveries[d].last_attempt_at = Some(3)

\* C7: an attempted delivery is never pending again; a successful delivery
\* has no task scheduled and its row never changes; a failed delivery with
\* no retry scheduled never changes either.
C7_StatusStateMachine ==
    /\ [](\A d \in DOMAIN deliveries :
            /\ deliveries[d].status \in {"pending", "success", "failed"}
            /\ deliveries[d].status = "pending" <=> deliveries[d].attempts = 0
            /\ deliveries[d].status = "success" => ~Scheduled(d))
    /\ [][\A d \in DOMAIN deliveries :
            /\ deliveries[d].status # "pending" =>
                  deliveries'[d].status # "pending"
            /\ deliveries[d].status = "success" =>
                  deliveries'[d] = deliveries[d]
            /\ (deliveries[d].status = "failed" /\ ~Scheduled(d)) =>
                  /\ deliveries'[d] = deliveries[d]
                  /\ ~Scheduled(d)']_vars

\* C7 witness: a delivery failed, was retried and succeeded
C7_Witness ==
    \E d \in AttemptedDeliveries :
        /\ deliveries[d].status = "success"
        /\ deliveries[d].attempts = 2
        /\ Len(retryLog[d]) = 1

\* C8: after an attempt the status is success exactly when a response with
\* a status code in [200, 300) was received, and failed otherwise; the
\* status code of a received response is recorded.
C8_StatusClassification ==
    \A d \in DOMAIN lastAttempt :
        LET o == lastAttempt[d].outcome
            ok == o.kind = "response" /\ o.status_code >= 200
                  /\ o.status_code < 300
        IN /\ deliveries[d].status = "success" <=> ok
           /\ ~ok => deliveries[d].status = "failed"
           /\ o.kind = "response" =>
                 deliveries[d].response_status_code = Some(o.status_code)

\* C8 witness: one delivery failed on the response 300 and then on a
\* connection error
C8_Witness ==
    \E d \in DOMAIN lastAttempt :
        /\ lastAttempt[d].outcome.kind = "error"
        /\ deliveries[d].status = "failed"
        /\ deliveries[d].response_status_code = Some(300)

\* the retries of delivery d that were scheduled, in order
ScheduledRetries(d) ==
    SelectSeq(Logged(retryLog, d), LAMBDA r : r.scheduled)

\* the retry delays in seconds
Delays == <<10, 20, 40, 80, 160>>

\* C9: the k-th retry scheduled for a delivery (k = 0 for the first) has
\* the delay 10 * 2^k seconds: 10, 20, 40, 80, 160, each twice the one
\* before; no retry has another delay, and a queued retry carries it.
C9_ExponentialBackoff ==
    /\ \A d \in DOMAIN retryLog :
          LET sched == ScheduledRetries(d) IN
          /\ Len(sched) <= Len(Delays)
          /\ \A i \in 1..Len(sched) :
                /\ sched[i].countdown = Delays[i]
                /\ sched[i].retries = i - 1
                /\ i > 1 => sched[i].countdown = 2 * sched[i - 1].countdown
    /\ \A t \in deliveryQ :
          IF t.retries = 0 THEN t.countdown = 0
          ELSE /\ t.retries <= Len(Delays)
               /\ t.countdown = Delays[t.retries]

\* C9 witness: five retries of one delivery were scheduled, the last after
\* 160 seconds
C9_Witness ==
    \E d \in DOMAIN retryLog :
        /\ Len(ScheduledRetries(d)) = 5
        /\ ScheduledRetries(d)[5].countdown = 160

\* a secret is configured: it is neither absent nor the empty string
SecretConfigured(secret) == secret # None /\ secret # ""

\* C10: a POST carries X-Webhook-Signature exactly when the delivery's
\* secret is configured, and the header is then the hex HMAC-SHA256, under
\* the secret, of the very bytes transmitted as the body.
C10_SignatureHeader ==
    \A d \in DOMAIN posts :
        \A i \in 1..Len(posts[d]) :
            LET p == posts[d][i]
                signed == "X-Webhook-Signature" \in DOMAIN p.headers
            IN /\ signed <=> SecretConfigured(p.secret)
               /\ p.headers["Content-Type"] = "application/json"
               /\ signed =>
                     p.headers["X-Webhook-Signature"] =
                        HmacSha256Hex(Encode(p.secret), p.content)

\* C10 witness: a signed POST was made for a delivery with the secret k1
C10_Witness ==
    \E d \in DOMAIN posts :
        /\ posts[d][1].secret = "k1"
        /\ "X-Webhook-Signature" \in DOMAIN posts[d][1].headers

\* the receiver's check: recompute the HMAC of the bytes received under the
\* shared secret and compare it with the header
Verifies(secret, received, signature) ==
    HmacSha256Hex(Encode(secret), received) = signature

\* the bytes with the value of the first member replaced
TamperedValue(content) ==
    <<content[1], [content[2] EXCEPT ![1] = <<@[1], <<"tampered">>>>]>>

\* the bytes with the last member cut off
CutShort(content) ==
    <<content[1], SubSeq(content[2], 1, Len(content[2]) - 1)>>

\* the same JSON members serialised in another order
Reordered(content) ==
    <<content[1], [i \in 1..Len(content[2]) |->
                      content[2][Len(content[2]) + 1 - i]]>>

\* bodies a receiver may be handed for the transmitted bytes
ReceivedBodies(content) ==
    {content, TamperedValue(content), CutShort(content), Reordered(content)}

\* the POSTs that carried a signature
SignedPosts ==
    {p \in UNION {Range(posts[d]) : d \in DOMAIN posts} :
        "X-Webhook-Signature" \in DOMAIN p.headers}

\* C11: for every signed POST, a receiver recomputing HMAC-SHA256 under the
\* secret over the body it received obtains the X-Webhook-Signature value
\* exactly when that body equals the transmitted bytes; a changed value, a
\* truncation or a re-serialisation fails verification.
C11_SignatureRoundTrip ==
    \A p \in SignedPosts :
        \A r \in ReceivedBodies(p.content) :
            Verifies(p.secret, r, p.headers["X-Webhook-Signature"])
                <=> r = p.content

\* C11 witness: a signed POST whose transmitted body verifies and whose
\* tampered body does not
C11_Witness ==
    \E p \in SignedPosts :
        /\ Verifies(p.secret, p.content, p.headers["X-Webhook-Signature"])
        /\ TamperedValue(p.content) # p.content
        /\ ~Verifies(p.secret, TamperedValue(p.content),
                     p.headers["X-Webhook-Signature"])

\* the columns of a delivery that are fixed at its creation
Fixed(row) ==
    [endpoint_id |-> row.endpoint_id, event_type |-> row.event_type,
     payload |-> row.payload, is_active |-> row.is_active]

\* C12: a delivery row is never removed and its payload snapshot,
\* endpoint_id and event_type (and is_active) never change, whatever
\* attempts, retries, endpoint updates and endpoint deletions take place;
\* a step of an endpoint operation leaves the whole deliveries table as it
\* is, so only the fan-out (adding rows) and the worker (writing status,
\* response_status_code, response_body, attempts, last_attempt_at) write it.
C12_SnapshotImmutable ==
    /\ [][\A d \in DOMAIN deliveries :
            /\ d \in DOMAIN deliveries'
            /\ Fixed(deliveries'[d]) = Fixed(deliveries[d])]_vars
    /\ [][(endpoints' # endpoints \/ endpointOps' # endpointOps) =>
            deliveries' = deliveries]_vars
    /\ [](\A d \in DOMAIN deliveries :
            /\ deliveries[d].payload.event_type = deliveries[d].event_type
            /\ deliveries[d].is_active)

\* C12 witness: a delivery has failed an attempt and its endpoint has since
\* been deactivated; the row still holds the event it was created for
C12_Witness ==
    \E d \in DOMAIN deliveries :
        /\ deliveries[d].attempts >= 1
        /\ deliveries[d].status = "failed"
        /\ ~endpoints[deliveries[d].endpoint_id].is_active
        /\ endpointOps = 1
        /\ deliveries[d].payload.event_type = DocumentCreated

\* the subscription s lists the type of e or the text before its first dot
Listed(list, event_type) ==
    Contains(list, event_type) \/ Contains(list, Prefix(event_type))

\* the persons notified by the latest direct invocation
Notified == {notifications[i].person_id : i \in NewNotifications}

\* C13: no Notification of a fan-out run is for the person who is the actor
\* of its event, also when that person's subscription matches; a run for an
\* event without actor_id that commits notifies every active subscriber of
\* the document whose list matches.
C13_ActorExclusion ==
    /\ \A i \in NewNotifications :
          notifications[i].person_id # lastCall.args.actor_id
    /\ (lastCall.committed /\ lastCall.args.actor_id = None) =>
          \A s \in DOMAIN subs :
              (/\ subs[s].is_active
               /\ subs[s].document_id = lastCall.args.document_id
               /\ Listed(subs[s].event_types, lastCall.args.event_type))
                  => subs[s].person_id \in Notified

\* C13 witness: a committed run whose actor p1 holds an active matching
\* subscription on the document notified p2 and not p1
C13_Witness ==
    /\ lastCall.committed
    /\ lastCall.args.actor_id = "p1"
    /\ \E s \in DOMAIN subs :
          /\ subs[s].person_id = "p1" /\ subs[s].is_active
          /\ subs[s].document_id = lastCall.args.document_id
          /\ Listed(subs[s].event_types, lastCall.args.event_type)
    /\ Notified = {"p2"}

\* the latest direct invocation was a notification fan-out that committed
NotifyCommitted ==
    lastCall.task = "dispatch_notifications" /\ lastCall.committed

\* the subscriptions the latest notification fan-out could notify: those of
\* another person than the actor
Candidates == {s \in DOMAIN subs : subs[s].person_id # lastCall.args.actor_id}

\* C14 as stated: a subscription listing "document" is notified of
\* "document.created" and is not notified of "document.version.created"
\* unless that type is listed literally.
C14_OneLevelAsStated ==
    NotifyCommitted =>
        \A s \in Candidates :
            /\ (/\ lastCall.args.event_type = DocumentCreated
                /\ Contains(subs[s].event_types, <<"document">>))
                  => subs[s].person_id \in Notified
            /\ (/\ lastCall.args.event_type = DocumentVersionCreated
                /\ ~Contains(subs[s].event_types, DocumentVersionCreated))
                  => subs[s].person_id \notin Notified

\* C14 amended: only the text before the first dot is a prefix. A
\* subscription listing "document" is notified of "document.created" and of
\* "document.version.created" alike; one listing only "document.version" is
\* notified of neither; one listing "document.version.created" literally is
\* notified of that type.
C14_FirstSegmentOnly ==
    NotifyCommitted =>
        \A s \in Candidates :
            LET list == subs[s].event_types
                type == lastCall.args.event_type
                notified == subs[s].person_id \in Notified
            IN /\ (Contains(list, <<"document">>)
                     /\ type \in {DocumentCreated, DocumentVersionCreated})
                     => notified
               /\ list = << <<"document", "version">> >> => ~notified
               /\ (Contains(list, DocumentVersionCreated)
                     /\ type = DocumentVersionCreated) => notified
               /\ (list = << DocumentCreated >> /\ type # DocumentCreated)
                     => ~notified

\* C14 witness: a subscriber listing only "document" was notified of
\* "document.version.created"
C14_Witness ==
    /\ NotifyCommitted
    /\ lastCall.args.event_type = DocumentVersionCreated
    /\ \E s \in Candidates :
          /\ subs[s].event_types = << <<"document">> >>
          /\ subs[s].person_id \in Notified

\* the latest direct invocation was a webhook fan-out that committed
WebhooksCommitted ==
    lastCall.task = "deliver_webhooks" /\ lastCall.committed

\* the endpoints the latest webhook fan-out created a delivery for
Delivered == {deliveries[d].endpoint_id : d \in NewDeliveries}

\* C15: an active endpoint with an empty list gets a delivery for every
\* event, an active subscription with an empty list is never notified, and
\* for a non-empty list the subscription rule and the endpoint rule agree:
\* each accepts an event exactly when the list holds its type or the text
\* before the first dot of its type.
C15_WildcardAsymmetry ==
    /\ WebhooksCommitted =>
          \A w \in DOMAIN endpoints :
              IF endpoints[w].event_types = <<>> THEN w \in Delivered
              ELSE w \in Delivered <=>
                     Listed(endpoints[w].event_types, lastCall.args.event_type)
    /\ NotifyCommitted =>
          \A s \in Candidates :
              IF subs[s].event_types = <<>>
              THEN subs[s].person_id \notin Notified
              ELSE subs[s].person_id \in Notified <=>
                     Listed(subs[s].event_types, lastCall.args.event_type)
    /\ \A s \in DOMAIN subs, w \in DOMAIN endpoints, t \in TaskEventTypes :
          (/\ subs[s].event_types = endpoints[w].event_types
           /\ subs[s].event_types # <<>>) =>
              (MatchesEvent(subs[s].event_types, t, EventPrefix(t))
                 <=> EndpointMatches(endpoints[w].event_types, t,
                                     EventPrefix(t)))

\* C15 witness: a committed notification fan-out passed over a subscriber
\* with an empty list, whose endpoint counterpart holds the same empty list
C15_Witness ==
    /\ NotifyCommitted
    /\ \E s \in Candidates, w \in DOMAIN endpoints :
          /\ subs[s].event_types = <<>>
          /\ endpoints[w].event_types = <<>>
          /\ subs[s].person_id \notin Notified
          /\ EndpointMatches(endpoints[w].event_types,
                             lastCall.args.event_type,
                             EventPrefix(lastCall.args.event_type))

\* the notifications of the runs for the behaviour's event that are for the
\* person of subscription s
NotificationsFor(s) ==
    {i \in NewNotifications : notifications[i].person_id = subs[s].person_id}

\* C16: after the fan-out has committed k runs for one event, each
\* qualifying subscription has exactly k Notifications of that event and
\* the table holds k times the rows of one run; a run that fails adds none.
C16_NoDeduplication ==
    lastCall.task = "dispatch_notifications" =>
        LET e == lastCall.args
            k == lastCall.runs
        IN /\ \A s \in DOMAIN subs :
                 Cardinality(NotificationsFor(s)) =
                    IF Qualifies(s, e) THEN k ELSE 0
           /\ Cardinality(NewNotifications) =
                 k * Cardinality({s \in DOMAIN subs : Qualifies(s, e)})

\* C16 witness: two committed runs for one event left two Notifications
\* for a qualifying subscriber
C16_Witness ==
    /\ lastCall.task = "dispatch_notifications"
    /\ lastCall.runs = 2
    /\ \E s \in DOMAIN subs :
          /\ Qualifies(s, lastCall.args)
          /\ Cardinality(NotificationsFor(s)) = 2

\* C17: a fan-out run persists either all of its rows or none. A committed
\* notification run leaves one row for every qualifying subscription and a
\* committed webhook run one for every qualifying endpoint; a run that
\* failed (a database error, or a .delay call that raised for any matching
\* endpoint) leaves no row at all, and no fan-out task is queued again.
C17_AllOrNothing ==
    /\ lastCall.task = "dispatch_notifications" =>
          IF lastCall.committed
          THEN Notified = {subs[s].person_id :
                             s \in {x \in DOMAIN subs :
                                      Qualifies(x, lastCall.args)}}
          ELSE NewNotifications = {}
    /\ lastCall.task = "deliver_webhooks" =>
          IF lastCall.committed
          THEN Delivered = {w \in DOMAIN endpoints :
                              EndpointQualifies(w, lastCall.args)}
          ELSE NewDeliveries = {}
    /\ notificationQ = {} /\ webhookQ = {} /\ eventQ = {}

\* C17 witness: a webhook fan-out with two matching endpoints flushed two
\* rows, failed to enqueue the second task, and left no row
C17_Witness ==
    /\ lastCall.task = "deliver_webhooks"
    /\ ~lastCall.committed
    /\ nextId.delivery = lastCall.firstId + 2
    /\ Cardinality(deliveryQ) = 1
    /\ DOMAIN deliveries = {}

\* the queued delivery tasks that carry the delivery id d
TasksOf(d) == {t \in deliveryQ : t.delivery_id = d}

\* the six members of a snapshot
SnapshotKeys == {PayloadKeys[i] : i \in 1..Len(PayloadKeys)}

\* C18: for every delivery row a webhook fan-out commits, exactly one
\* delivery task is queued with that row's id; it carries the url and secret
\* of the row's endpoint and a payload equal to the snapshot stored in the
\* row, made of the event's event_type, entity_type, entity_id, actor_id,
\* document_id and payload (an absent payload being the empty map).
C18_OneTaskPerDelivery ==
    lastCall.committed =>
        \A d \in NewDeliveries :
            /\ Cardinality(TasksOf(d)) = 1
            /\ \A t \in TasksOf(d) :
                  LET ep == endpoints[deliveries[d].endpoint_id]
                      e == lastCall.args
                  IN /\ t.url = ep.url
                     /\ t.secret = ep.secret
                     /\ t.payload = deliveries[d].payload
                     /\ DOMAIN t.payload = SnapshotKeys
                     /\ \A k \in SnapshotKeys \ {"payload"} :
                           t.payload[k] = e[k]
                     /\ t.payload.payload =
                           IF e.payload = None THEN EmptyMap ELSE e.payload
                     /\ t.retries = 0

\* C18 witness: a committed fan-out for an event without payload queued the
\* task of a delivery to an endpoint with a secret
C18_Witness ==
    /\ lastCall.committed
    /\ lastCall.args.payload = None
    /\ \E d \in NewDeliveries :
          \E t \in TasksOf(d) :
              /\ t.secret = "k1"
              /\ t.payload.payload = EmptyMap
              /\ t.payload = deliveries[d].payload

\* C19: invocations of the worker for one delivery are not serialized. A
\* commit stores the attempts value its invocation read plus one, whatever
\* was committed in between, so attempts never exceeds the number of POSTs
\* made for the delivery and can stay below it.
C19_LostUpdate ==
    \A d \in DOMAIN deliveries :
        /\ deliveries[d].attempts <= Len(Logged(posts, d))
        /\ d \in DOMAIN lastAttempt =>
              deliveries[d].attempts = lastAttempt[d].n

\* C19 witness: two overlapping invocations have both made their POST and
\* committed, and attempts is 1
C19_Witness ==
    \E d \in DOMAIN deliveries :
        /\ DOMAIN workers = {}
        /\ Len(Logged(posts, d)) = 2
        /\ deliveries[d].attempts = 1

\* C20: a run of the search-index trigger with a document_id opens a
\* session, calls the search collaborator's update exactly once, with that
\* document_id, and closes the session, also when the collaborator raises;
\* a run without document_id opens no session and makes no call; no run
\* raises.
C20_SearchTrigger ==
    \A u \in searchLog :
        /\ ~u.raised
        /\ IF u.document_id # None /\ u.document_id # ""
           THEN /\ u.updates = <<u.document_id>>
                /\ u.session = "closed"
           ELSE /\ u.updates = <<>>
                /\ u.session = "none"

\* C20 witness: the collaborator raised in a run for d1, which made its
\* one call, closed its session and did not raise
C20_Witness ==
    \E u \in searchLog :
        /\ u.failed /\ ~u.raised
        /\ u.updates = <<"d1">>
        /\ u.session = "closed"

---------------------------------------------------------------------------
(* Notification service: Notifications in app/services/notification.py *)

\* notification fan-outs run while a service call can still add a new id
MaxInboxRows == 2
\* service calls in one behaviour
MaxServiceCalls == 3

\* how a service call ends: a returned value or HTTPException(404)
Returned(value) == <<"returned", value>>
NotFound == <<"HTTPException", 404>>

\* db.get(Notification, id): the position of the row in the table, 0 when
\* there is none
RowIndex(rows, id) ==
    IF \E i \in 1..Len(rows) : rows[i].id = id
    THEN CHOOSE i \in 1..Len(rows) : rows[i].id = id
    ELSE 0

\* mark_read taking every found row for unread
IsUnreadAlways(row) == TRUE

\* `not notification.is_read` of mark_read
IsUnread(row) == ~row.is_read

\* the loop of mark_read over notification_ids; t is the time read once
\* before the loop
RECURSIVE MarkReadLoop(_, _, _, _)
MarkReadLoop(rows, ids, t, count) ==
    IF ids = <<>> THEN [rows |-> rows, result |-> Returned(count)]
    ELSE LET i == RowIndex(rows, Head(ids)) IN
         IF i # 0 /\ IsUnread(rows[i])
         THEN MarkReadLoop([rows EXCEPT ![i].is_read = TRUE,
                                        ![i].read_at = Some(t)],
                           Tail(ids), t, count + 1)
         ELSE MarkReadLoop(rows, Tail(ids), t, count)

\* Notifications.mark_read
MarkRead(rows, notification_ids, t) == MarkReadLoop(rows, notification_ids, t, 0)

\* the filter of the query of mark_all_read
SelectedUnread(row, person_id) ==
    row.person_id = person_id /\ ~row.is_read /\ row.is_active

\* Notifications.mark_all_read: 404 when the person does not exist
MarkAllRead(rows, person_id, t) ==
    IF person_id \notin Persons THEN [rows |-> rows, result |-> NotFound]
    ELSE LET sel == {i \in 1..Len(rows) : SelectedUnread(rows[i], person_id)}
         IN [rows |-> [i \in 1..Len(rows) |->
                         IF i \in sel
                         THEN [rows[i] EXCEPT !.is_read = TRUE,
                                              !.read_at = Some(t)]
                         ELSE rows[i]],
             result |-> Returned(Cardinality(sel))]

\* a count that takes in the dismissed notifications
CountedUnreadWithDismissed(row, person_id) ==
    row.person_id = person_id /\ ~row.is_read

\* the filter of the count query of unread_count
CountedUnread(row, person_id) ==
    row.person_id = person_id /\ ~row.is_read /\ row.is_active

\* Notifications.unread_count: 404 when the person does not exist
UnreadCount(rows, person_id) ==
    IF person_id \notin Persons THEN NotFound
    ELSE Returned(Cardinality({i \in 1..Len(rows) :
                                 CountedUnread(rows[i], person_id)}))

\* a dismissal that deletes the row
DismissDeleting(rows, notification_id) ==
    LET i == RowIndex(rows, notification_id) IN
    IF i = 0 THEN [rows |-> rows, result |-> NotFound]
    ELSE [rows |-> SelectSeq(rows, LAMBDA r : r.id # notification_id),
          result |-> Returned(None)]

\* Notifications.dismiss: a soft delete, 404 when the row does not exist
Dismiss(rows, notification_id) ==
    LET i == RowIndex(rows, notification_id) IN
    IF i = 0 THEN [rows |-> rows, result |-> NotFound]
    ELSE [rows |-> [rows EXCEPT ![i].is_active = FALSE],
          result |-> Returned(None)]

\* the record kept of a service call
Op(op, args, result) == [op |-> op, args |-> args, result |-> result]

\* lists of notification ids mark_read is called with: ids of rows, an
\* unknown id (9) and a repeated id
IdLists == {<<>>, <<1>>, <<2>>, <<1, 9>>, <<1, 1>>, <<2, 3>>}

\* ids dismiss is called with
NotificationIds == {1, 2, 9}

\* persons the service is called for: the rows of people and an unknown one
PersonIds == Persons \cup {"p9"}

\* events the subscribers of d1 are notified about
InboxEvents ==
    {EventData(DocumentCreated, "document", 1, actor_id, "d1", EmptyMap) :
        actor_id \in {None, "p1"}}

\* what the notification service's calls leave alone
InboxFrame ==
    UNCHANGED <<subs, endpoints, deliveries, eventQ, notificationQ,
                webhookQ, searchQ, deliveryQ, published, processLog,
                searchLog, posts, retryLog, lastAttempt, lastCall, calls,
                workers, endpointOps, sessions, entities>>

\* dispatch_notifications run on one of InboxEvents
NotifyInbox ==
    \E e \in InboxEvents, dbOk \in BOOLEAN :
        /\ nextId.notification <= MaxInboxRows
        /\ DispatchNotificationsTask(e, dbOk)
        /\ UNCHANGED <<now, lastOp>>
        /\ InboxFrame

\* an API client calls mark_read
MarkReadCall ==
    \E ids \in IdLists :
        LET r == MarkRead(notifications, ids, now) IN
        /\ now <= MaxServiceCalls
        /\ now' = now + 1
        /\ notifications' = r.rows
        /\ lastOp' = Op("mark_read", ids, r.result)
        /\ UNCHANGED nextId
        /\ InboxFrame

\* an API client calls mark_all_read
MarkAllReadCall ==
    \E person_id \in PersonIds :
        LET r == MarkAllRead(notifications, person_id, now) IN
        /\ now <= MaxServiceCalls
        /\ now' = now + 1
        /\ notifications' = r.rows
        /\ lastOp' = Op("mark_all_read", person_id, r.result)
        /\ UNCHANGED nextId
        /\ InboxFrame

\* an API client calls unread_count
UnreadCountCall ==
    \E person_id \in PersonIds :
        /\ now <= MaxServiceCalls
        /\ now' = now + 1
        /\ lastOp' = Op("unread_count", person_id,
                        UnreadCount(notifications, person_id))
        /\ UNCHANGED <<notifications, nextId>>
        /\ InboxFrame

\* an API client calls dismiss
DismissCall ==
    \E notification_id \in NotificationIds :
        LET r == Dismiss(notifications, notification_id) IN
        /\ now <= MaxServiceCalls
        /\ now' = now + 1
        /\ notifications' = r.rows
        /\ lastOp' = Op("dismiss", notification_id, r.result)
        /\ UNCHANGED nextId
        /\ InboxFrame

\* two active subscribers of d1 to every document event
InitInbox ==
    /\ InitEmpty
    /\ subs = [s \in {"s1", "s2"} |->
                 Subscription("d1", IF s = "s1" THEN "p1" ELSE "p2",
                              << <<"document">> >>, TRUE)]
    /\ endpoints = [w \in {"w1", "w2"} |->
                 Endpoint("https://a.example/hook", None, <<>>, FALSE)]

\* the notification service on the rows that fan-outs create
NextInbox ==
    \/ NotifyInbox
    \/ MarkReadCall
    \/ MarkAllReadCall
    \/ UnreadCountCall
    \/ DismissCall

SpecInbox == InitInbox /\ [][NextInbox]_vars

\* the columns of a notification that no call assigns
FixedNotificationColumns ==
    {"id", "person_id", "title", "body", "event_type", "entity_type",
     "entity_id"}

\* a step made by the service call op
ServiceStep(op) == now' # now /\ lastOp'.op = op

TurnedRead ==
    {i \in 1..Len(notifications) :
        ~notifications[i].is_read /\ notifications'[i].is_read}

\* C22: in every state a read notification has read_at set. A mark_read
\* call returns (whatever ids it is given, unknown ones included) the
\* number of rows it turned from unread to read, all of them listed in the
\* call. From every state, mark_read called twice in a row with the same
\* ids returns 0 the second time and changes no row; and a mark_read call
\* whose listed rows are all read already returns 0 and changes no row.
C22_MarkReadIdempotent ==
    /\ [](\A i \in 1..Len(notifications) :
             notifications[i].is_read => notifications[i].read_at # Null)
    /\ [](\A ids \in IdLists :
             LET first == MarkRead(notifications, ids, now)
                 again == MarkRead(first.rows, ids, now + 1)
             IN /\ again.result = Returned(0)
                /\ again.rows = first.rows)
    /\ [][ServiceStep("mark_read") =>
            /\ lastOp'.result = Returned(Cardinality(TurnedRead))
            /\ \A i \in TurnedRead :
                 notifications[i].id \in Range(lastOp'.args)
            /\ (\A i \in 1..Len(notifications) :
                  notifications[i].id \in Range(lastOp'.args)
                  => notifications[i].is_read)
               => /\ lastOp'.result = Returned(0)
                  /\ notifications' = notifications]_vars

\* C22 witness: mark_read([1, 9]) has just returned 0, notification 1
\* having been read by an earlier call whose read_at it keeps
C22_Witness ==
    /\ lastOp.op = "mark_read"
    /\ lastOp.args = <<1, 9>>
    /\ lastOp.result = Returned(0)
    /\ \E i \in 1..Len(notifications) :
         /\ notifications[i].id = 1
         /\ notifications[i].is_read
         /\ notifications[i].read_at # Null
         /\ notifications[i].read_at[1] + 2 <= now

\* the person's notifications that are unread and not dismissed
UnreadOf(person_id) ==
    {i \in 1..Len(notifications) :
        /\ notifications[i].person_id = person_id
        /\ ~notifications[i].is_read
        /\ notifications[i].is_active}

\* C23: in every state reached by fan-outs and service calls,
\* unread_count(person) is the number of the person's notifications with
\* is_read false and is_active true, and every unread_count call returned
\* that number; a mark_all_read call for the person returns that number,
\* changes no dismissed notification, and leaves unread_count(person) at 0.
C23_UnreadCount ==
    /\ [](\A p \in Persons :
             UnreadCount(notifications, p) = Returned(Cardinality(UnreadOf(p))))
    /\ [][(ServiceStep("unread_count") /\ lastOp'.args \in Persons) =>
            /\ lastOp'.result = Returned(Cardinality(UnreadOf(lastOp'.args)))
            /\ notifications' = notifications]_vars
    /\ [][(ServiceStep("mark_all_read") /\ lastOp'.args \in Persons) =>
            /\ lastOp'.result = Returned(Cardinality(UnreadOf(lastOp'.args)))
            /\ \A i \in 1..Len(notifications) :
                 ~notifications[i].is_active
                 => notifications'[i] = notifications[i]
            /\ UnreadCount(notifications', lastOp'.args) = Returned(0)]_vars

\* C23 witness: mark_all_read(p2) has returned 1 while p2 has two
\* notifications, the other one dismissed and still unread
C23_Witness ==
    /\ lastOp.op = "mark_all_read"
    /\ lastOp.args = "p2"
    /\ lastOp.result = Returned(1)
    /\ \E i, j \in 1..Len(notifications) :
         /\ notifications[i].person_id = "p2" /\ notifications[i].is_read
         /\ notifications[i].is_active
         /\ notifications[j].person_id = "p2" /\ ~notifications[j].is_read
         /\ ~notifications[j].is_active

---------------------------------------------------------------------------
(* publish_event on any arguments *)

\* payloads publish_event is called with: None, the empty dict, a dict
NonEmptyMap == "{'name': 'report'}"
PublishPayloads == {None, EmptyMap, NonEmptyMap}

\* ids publish_event is called with
PublishEntityIds == {Uuid("e1"), PyStr("e2")}
PublishActorIds == {PyNone, Uuid("p1"), PyStr("p2"), PyStr("")}
PublishDocumentIds == {PyNone, Uuid("d1"), PyStr("d2")}

\* a service calls publish_event
CallPublishEvent ==
    \E event_type \in EventTypeMembers, entity_id \in PublishEntityIds,
       actor_id \in PublishActorIds, document_id \in PublishDocumentIds,
       payload \in PublishPayloads, enqueueOk \in BOOLEAN :
        /\ Len(published) < MaxPublish
        /\ PublishEventCall(event_type, "document", entity_id, actor_id,
                            document_id, payload, enqueueOk)
        /\ lastOp' = Op("publish_event",
                        EventData(event_type, "document", entity_id,
                                  actor_id, document_id, payload),
                        PublishResult(enqueueOk))
        /\ UNCHANGED <<subs, endpoints, notifications, deliveries,
                       notificationQ, webhookQ, searchQ, deliveryQ, now,
                       processLog, searchLog, posts, retryLog, lastAttempt,
                       lastCall, calls, workers, endpointOps, sessions,
                       entities>>

NextPublish == CallPublishEvent

SpecPublish == Init /\ [][NextPublish]_vars

\* the dotted string of an EventType member, as the enum lists it
DottedValue(member) ==
    IF member = "document_created" THEN <<"document", "created">>
    ELSE IF member = "comment_created" THEN <<"comment", "created">>
    ELSE <<"document", "checked_out">>

\* what an optional id argument is passed as: null when absent (None, or
\* the empty string), its string form otherwise
PassedId(v) ==
    IF v = PyNone \/ v = PyStr("") THEN None ELSE v[2]

\* C24: a publish_event call whose enqueue succeeds adds exactly one
\* process_event task to the queue, with event_type the dotted value of the
\* EventType member, entity_type as given, entity_id the string form of the
\* id, actor_id and document_id the string form of the id or null when
\* absent, and payload the given map or the empty map when absent; a call
\* whose enqueue fails adds none.
C24_PublishEnqueuesOne ==
    [][published' # published =>
         LET c == lastOp'.args
             new == eventQ' \ eventQ
         IN /\ lastOp'.op = "publish_event"
            /\ IF lastOp'.result.enqueued
               THEN /\ Cardinality(new) = 1
                    /\ eventQ \subseteq eventQ'
                    /\ \A t \in new :
                         /\ t.args.event_type = DottedValue(c.event_type)
                         /\ t.args.entity_type = c.entity_type
                         /\ t.args.entity_id = c.entity_id[2]
                         /\ t.args.actor_id = PassedId(c.actor_id)
                         /\ t.args.document_id = PassedId(c.document_id)
                         /\ t.args.payload =
                              (IF c.payload = None THEN "{}" ELSE c.payload)
                         /\ DOMAIN t.args =
                              {"event_type", "entity_type", "entity_id",
                               "actor_id", "document_id", "payload"}
               ELSE eventQ' = eventQ]_vars

\* C24 witness: a call with a UUID entity id, no actor, a document id and
\* no payload has enqueued one task with null actor_id and the empty map
C24_Witness ==
    /\ lastOp.op = "publish_event"
    /\ lastOp.result.enqueued
    /\ lastOp.args.event_type = "document_checked_out"
    /\ lastOp.args.entity_id = Uuid("e1")
    /\ lastOp.args.actor_id = PyNone
    /\ lastOp.args.payload = None
    /\ \E t \in eventQ :
         /\ t.args.event_type = <<"document", "checked_out">>
         /\ t.args.entity_id = "e1"
         /\ t.args.actor_id = None
         /\ t.args.document_id = "d1"
         /\ t.args.payload = EmptyMap

\* the process_event task a step consumes
Consumed == CHOOSE t \in eventQ : t \notin eventQ'

\* C25: a process_event run in which no .delay call fails consumes one
\* envelope and adds exactly one dispatch_notifications task and exactly one
\* deliver_webhooks task, each with the envelope's six fields as they were,
\* and exactly one update_search_index task with only the envelope's
\* document_id and event_type; it puts nothing back on the event queue and
\* changes nothing the publisher recorded.
C25_ProcessEventFansOut ==
    [][(\E r \in processLog' \ processLog : r.fail = {}) =>
         LET t == Consumed IN
         /\ eventQ' = eventQ \ {t}
         /\ published' = published
         /\ \E n \in notificationQ' :
              /\ notificationQ' \ notificationQ = {n}
              /\ n.args = t.args
              /\ DOMAIN n.args = SnapshotKeys
         /\ \E w \in webhookQ' :
              /\ webhookQ' \ webhookQ = {w}
              /\ w.args = t.args
              /\ DOMAIN w.args = SnapshotKeys
         /\ \E s \in searchQ' :
              /\ searchQ' \ searchQ = {s}
              /\ s.document_id = t.args.document_id
              /\ s.event_type = t.args.event_type
              /\ DOMAIN s = {"id", "root_id", "document_id", "event_type"}
         /\ notificationQ \subseteq notificationQ'
         /\ webhookQ \subseteq webhookQ'
         /\ searchQ \subseteq searchQ']_vars

\* C25 witness: the envelope of a comment.created event without an actor
\* has been consumed by a run in which no .delay call failed, and its three
\* tasks are queued
C25_Witness ==
    \E r \in processLog :
        /\ r.fail = {}
        /\ eventQ = {}
        /\ \E n \in notificationQ, w \in webhookQ, s \in searchQ :
             /\ n.root_id = r.root_id /\ w.root_id = r.root_id
             /\ s.root_id = r.root_id
             /\ n.args.event_type = CommentCreated
             /\ n.args.actor_id = None
             /\ w.args = n.args
             /\ s.document_id = "d1"
             /\ s.event_type = CommentCreated

---------------------------------------------------------------------------
(* The webhook fan-out split at its commit: the delivery tasks are on the  *)
(* queue from the .delay calls on, the rows are visible to other sessions  *)
(* from db.commit() on.                                                    *)

\* deliver_webhooks up to db.commit(): the rows are flushed in the task's
\* session and the delivery tasks are enqueued
BeginDeliverWebhooksTask(e, root_id, failAt) ==
    LET r == FindAndQueue(e, root_id, failAt) IN
    /\ sessions' = Put(sessions, "deliver_webhooks",
                       [args |-> e, rows |-> r.rows, raised |-> r.raised])
    /\ deliveryQ' = deliveryQ \cup Range(r.tasks)
    /\ nextId' = [nextId EXCEPT !.delivery = @ + Len(r.rows),
                                !.task = @ + Len(r.tasks)]

\* deliver_webhooks from db.commit() on: the flushed rows are committed, or
\* rolled back when a .delay call had raised or the commit fails, and the
\* session is closed
EndDeliverWebhooksTask(dbOk) ==
    LET s == sessions["deliver_webhooks"]
        kept == Persisted(s.rows, s.raised, dbOk)
        new == {kept[i].id : i \in 1..Len(kept)}
        rowOf(d) == (CHOOSE x \in Range(kept) : x.id = d).row
    IN /\ deliveries' =
            [d \in DOMAIN deliveries \cup new |->
                IF d \in new THEN rowOf(d) ELSE deliveries[d]]
       /\ sessions' = [x \in DOMAIN sessions \ {"deliver_webhooks"} |->
                         sessions[x]]
       /\ lastCall' = Called("deliver_webhooks", s.args,
                             nextId.delivery - Len(s.rows),
                             ~s.raised /\ dbOk)

\* a worker starts a deliver_webhooks task on one of DeliveryEvents
BeginDeliverWebhooks ==
    \E e \in DeliveryEvents, failAt \in 0..1 :
        /\ calls < MaxCalls
        /\ "deliver_webhooks" \notin DOMAIN sessions
        /\ calls' = calls + 1
        /\ BeginDeliverWebhooksTask(e, 0, failAt)
        /\ UNCHANGED <<subs, endpoints, notifications, deliveries, eventQ,
                       notificationQ, webhookQ, searchQ, now, published,
                       processLog, searchLog, posts, retryLog, lastAttempt,
                       lastCall, workers, endpointOps, lastOp, entities>>

\* the worker's deliver_webhooks task reaches its commit and ends
EndDeliverWebhooks ==
    \E dbOk \in BOOLEAN :
        /\ "deliver_webhooks" \in DOMAIN sessions
        /\ EndDeliverWebhooksTask(dbOk)
        /\ UNCHANGED <<subs, endpoints, notifications, eventQ,
                       notificationQ, webhookQ, searchQ, deliveryQ, nextId,
                       now, published, processLog, searchLog, posts,
                       retryLog, lastAttempt, calls, workers, endpointOps,
                       lastOp, entities>>

\* the fan-out task and the delivery worker, running concurrently
NextCommit ==
    \/ BeginDeliverWebhooks
    \/ EndDeliverWebhooks
    \/ DeliverSingleWebhook

SpecCommit == InitDelivery /\ [][NextCommit]_vars

\* The queue workers are scheduled fairly: a started fan-out task reaches
\* its commit, and a queued delivery task is taken by a worker.
SpecCommitFair ==
    /\ SpecCommit
    /\ WF_vars(EndDeliverWebhooks)
    /\ WF_vars(DeliverSingleWebhook)

\* ids of the Delivery rows a behaviour can create
DeliveryIds == 1..(2 * MaxCalls)

\* C26, as stated: every Delivery row committed by the webhook fan-out is
\* eventually attempted (attempts >= 1, status no longer pending), under
\* fair scheduling of the workers, whenever its delivery task started.
C26_EventuallyAttempted ==
    \A d \in DeliveryIds :
        (d \in DOMAIN deliveries)
        ~> (/\ d \in DOMAIN deliveries
            /\ deliveries[d].attempts >= 1
            /\ deliveries[d].status # "pending")

\* C26: the state the claim excludes: a committed Delivery that is pending
\* and unattempted while no fan-out is running and no delivery task is
\* queued, its task having run before the commit and found no row
C26_Stranded ==
    \E d \in DOMAIN deliveries :
        /\ deliveries[d].status = "pending"
        /\ deliveries[d].attempts = 0
        /\ DOMAIN sessions = {}
        /\ deliveryQ = {}
        /\ d \notin DOMAIN posts

\* the delivery task a step takes off the queue
TakenTask == CHOOSE t \in deliveryQ : t \notin deliveryQ'

\* C27: a delivery-worker step whose task names a delivery_id with no
\* visible (committed) Delivery row makes no POST, changes no row, logs no
\* attempt and schedules no retry: the task just leaves the queue. Hence
\* POSTs exist only for committed rows, and none for a row of a fan-out
\* that was rolled back.
C27_InvisibleRowNoPost ==
    /\ [][(/\ deliveryQ' # deliveryQ
           /\ \E t \in deliveryQ : /\ t \notin deliveryQ'
                                   /\ t.delivery_id \notin DOMAIN deliveries)
          => /\ deliveryQ' = deliveryQ \ {TakenTask}
             /\ posts' = posts
             /\ deliveries' = deliveries
             /\ retryLog' = retryLog
             /\ lastAttempt' = lastAttempt]_vars
    /\ [](DOMAIN posts \subseteq DOMAIN deliveries)
    /\ []((lastCall.task = "deliver_webhooks" /\ ~lastCall.committed)
          => \A d \in DOMAIN posts : d < lastCall.firstId)

\* C27 witness: a fan-out enqueued a delivery task and was then rolled
\* back; the worker has taken the task, and no POST was made and nothing is
\* queued
C27_Witness ==
    /\ lastCall.task = "deliver_webhooks"
    /\ ~lastCall.committed
    /\ nextId.task > 1
    /\ DOMAIN sessions = {}
    /\ deliveryQ = {}
    /\ DOMAIN posts = {}
    /\ DOMAIN deliveries = {}

---------------------------------------------------------------------------
(* Deliveries followed from the endpoint values their fan-out read *)

\* delivery id -> the endpoint row and the event its fan-out read
Captured == IF lastOp.op = "deliver_webhooks" THEN lastOp.result
            ELSE [d \in {} |-> 0]

\* the rows flushed by a fan-out, each with the endpoint row it was made
\* from and the event
RECURSIVE Capture(_, _, _)
Capture(acc, rows, e) ==
    IF rows = <<>> THEN acc
    ELSE Capture(Put(acc, Head(rows).id,
                     [endpoint |-> endpoints[Head(rows).row.endpoint_id],
                      event |-> e]),
                 Tail(rows), e)

\* deliver_webhooks invoked directly on one of DeliveryEvents, the endpoint
\* rows it read being recorded
CaptureDeliveries ==
    \E e \in DeliveryEvents, failAt \in 0..1, dbOk \in BOOLEAN :
        /\ calls < MaxCalls
        /\ calls' = calls + 1
        /\ DeliverWebhooksTask(e, 0, failAt, dbOk)
        /\ lastCall' = Called("deliver_webhooks", e, nextId.delivery,
                               ~FindAndQueue(e, 0, failAt).raised /\ dbOk)
        /\ lastOp' = Op("deliver_webhooks", None,
                        Capture(Captured, FindAndQueue(e, 0, failAt).rows, e))
        /\ UNCHANGED <<subs, endpoints, notifications, eventQ,
                       notificationQ, webhookQ, searchQ, now, published,
                       processLog, searchLog, posts, retryLog, lastAttempt,
                       workers, endpointOps, sessions, entities>>

\* the delivery worker while endpoints are updated and deleted
NextCapture ==
    \/ CaptureDeliveries
    \/ AttemptDelivery
    \/ UpdateEndpoint
    \/ DeleteEndpoint

SpecCapture == InitFrame /\ [][NextCapture]_vars

\* task t carries the url and secret of endpoint row ep and the snapshot
\* of event e
Carries(t, c) ==
    /\ t.url = c.endpoint.url
    /\ t.secret = c.endpoint.secret
    /\ t.payload = Snapshot(c.event)

\* C28: every POST made for a delivery, and every delivery task queued for
\* it (first attempt or retry), has the url and secret the endpoint had when
\* the delivery's fan-out read it and the snapshot of that fan-out's event,
\* whatever has been done to the endpoint since. An endpoint update or
\* deletion removes no queued task and changes no Delivery row; a failed
\* attempt below the retry cap queues its retry with the same url, secret
\* and payload, whether or not the endpoint is still active.
C28_CapturedAtFanout ==
    /\ [](\A d \in DOMAIN posts :
            /\ d \in DOMAIN Captured
            /\ \A i \in 1..Len(posts[d]) :
                 /\ posts[d][i].url = Captured[d].endpoint.url
                 /\ posts[d][i].secret = Captured[d].endpoint.secret
                 /\ posts[d][i].content =
                      Encode(JsonDumps(Snapshot(Captured[d].event))))
    /\ [](\A t \in deliveryQ :
            /\ t.delivery_id \in DOMAIN Captured
            /\ Carries(t, Captured[t.delivery_id]))
    /\ [][endpoints' # endpoints =>
            /\ deliveryQ' = deliveryQ
            /\ deliveries' = deliveries
            /\ posts' = posts]_vars
    /\ [][\A d \in DOMAIN posts' :
            (/\ Len(posts'[d]) > Len(Logged(posts, d))
             /\ deliveries'[d].status = "failed"
             /\ deliveries'[d].attempts <= MaxRetries)
            => \E t \in deliveryQ' \ deliveryQ :
                 /\ t.delivery_id = d
                 /\ t.retries = deliveries'[d].attempts
                 /\ Carries(t, Captured[d])]_vars

\* C28 witness: the endpoint of a delivery has been given another url or
\* been deactivated after the fan-out; two POSTs were made to the url read
\* by the fan-out, and a retry to that url is queued
C28_Witness ==
    \E d \in DOMAIN posts :
        LET ep == endpoints[deliveries[d].endpoint_id] IN
        /\ d \in DOMAIN Captured
        /\ Captured[d].endpoint.is_active
        /\ (ep.url # Captured[d].endpoint.url \/ ~ep.is_active)
        /\ Len(posts[d]) = 2
        /\ posts[d][2].url = Captured[d].endpoint.url
        /\ \E t \in deliveryQ :
             /\ t.delivery_id = d /\ t.retries = 2
             /\ t.url = Captured[d].endpoint.url

\* no delivery task for d is queued and d has reached a final status
Settled(d) ==
    /\ d \in DOMAIN deliveries
    /\ \A t \in deliveryQ : t.delivery_id # d
    /\ deliveries[d].status \in {"success", "failed"}

\* C29, as stated: under fair scheduling every Delivery eventually has no
\* delivery task scheduled and status success or failed, whatever the HTTP
\* outcomes.
C29_Terminates ==
    \A d \in DeliveryIds : (d \in DOMAIN deliveries) ~> Settled(d)

\* C29, the part that holds: a Delivery that has been attempted once
\* eventually has no task scheduled and status success or failed, whatever
\* the HTTP outcomes; the POSTs made for a Delivery never exceed
\* max_retries + 1 and equal its attempts, and at most one task is queued
\* for it at a time.
C29_AttemptedTerminates ==
    /\ \A d \in DeliveryIds : (d \in DOMAIN posts) ~> Settled(d)
    /\ [](\A d \in DOMAIN posts :
            /\ Len(posts[d]) <= MaxRetries + 1
            /\ deliveries[d].attempts = Len(posts[d])
            /\ Cardinality({t \in deliveryQ : t.delivery_id = d}) <= 1)

\* C29: the state in which the claim fails for good: the delivery task has
\* run and is gone, no fan-out is open and nothing is queued, yet a
\* committed Delivery is still pending
C29_NeverSettles ==
    /\ nextId.task > 1
    /\ deliveryQ = {}
    /\ DOMAIN sessions = {}
    /\ \E d \in DOMAIN deliveries :
         /\ ~Settled(d)
         /\ deliveries[d].status = "pending"

---------------------------------------------------------------------------
(* Producing operations: a service mutates, publishes the event, and the   *)
(* request's session is committed or closed by the API dependency get_db   *)

\* the producing operations followed
Producers == {"checkout", "document_create", "comment_create"}

\* ids of the rows the producing operations insert, in order
EntityNames == <<"e1", "e2", "e3", "e4">>

\* whether the service commits before it calls publish_event:
\* Comments.create calls db.commit(); Checkouts.checkout and
\* Documents.create only db.flush()
CommitsBeforePublish(op) == op = "comment_create"

\* whether get_db of the operation's router commits after the handler
\* returned: api/ecm_checkouts.py and api/ecm_collaboration.py do,
\* api/ecm_documents.py only closes the session
RequestCommits(op) == op \in {"checkout", "comment_create"}

\* the publish_event call of the operation for the inserted row
ProducerCall(op, id) ==
    CASE op = "checkout" ->
           EventData("document_checked_out", "document_checkout", Uuid(id),
                     Uuid("p2"), Uuid("d1"), None)
      [] op = "document_create" ->
           EventData("document_created", "document", Uuid(id), Uuid("p1"),
                     Uuid(id), None)
      [] op = "comment_create" ->
           EventData("comment_created", "comment", Uuid(id), Uuid("p1"),
                     Uuid("d1"), None)

\* a request runs the service: the row is added to the request's session
\* and flushed (or committed), then publish_event is called
BeginMutation ==
    \E op \in Producers, enqueueOk \in BOOLEAN :
        LET id == EntityNames[Len(published) + 1]
            c == ProducerCall(op, id)
        IN /\ Len(published) < MaxPublish
           /\ Len(published) < Len(EntityNames)
           /\ "request" \notin DOMAIN sessions
           /\ sessions' = Put(sessions, "request", [op |-> op, id |-> id])
           /\ entities' = IF CommitsBeforePublish(op)
                          THEN entities \cup {id} ELSE entities
           /\ PublishEventCall(c.event_type, c.entity_type, c.entity_id,
                               c.actor_id, c.document_id, c.payload,
                               enqueueOk)
           /\ UNCHANGED <<subs, endpoints, notifications, deliveries,
                          notificationQ, webhookQ, searchQ, deliveryQ, now,
                          processLog, searchLog, posts, retryLog,
                          lastAttempt, lastCall, calls, workers,
                          endpointOps, lastOp>>

\* the request ends: get_db commits the session (the commit succeeds or
\* fails and is rolled back) or only closes it, which rolls back
EndRequest ==
    \E commitOk \in BOOLEAN :
        /\ "request" \in DOMAIN sessions
        /\ entities' = IF RequestCommits(sessions["request"].op) /\ commitOk
                       THEN entities \cup {sessions["request"].id}
                       ELSE entities
        /\ sessions' = [x \in DOMAIN sessions \ {"request"} |-> sessions[x]]
        /\ UNCHANGED <<subs, endpoints, notifications, deliveries, eventQ,
                       notificationQ, webhookQ, searchQ, deliveryQ, nextId,
                       now, published, processLog, searchLog, posts,
                       retryLog, lastAttempt, lastCall, calls, workers,
                       endpointOps, lastOp>>

\* requests and the queue workers
NextMutation ==
    \/ BeginMutation
    \/ EndRequest
    \/ ProcessEvent
    \/ DispatchNotifications
    \/ DeliverWebhooks

SpecMutation == Init /\ [][NextMutation]_vars

\* C30, as stated: every queued process_event task, every Notification and
\* every Delivery is about a row whose insertion has been committed.
C30_EnqueuedAfterCommit ==
    /\ \A t \in eventQ : t.args.entity_id \in entities
    /\ \A i \in 1..Len(notifications) :
         notifications[i].entity_id \in entities
    /\ \A d \in DOMAIN deliveries :
         deliveries[d].payload.entity_id \in entities

\* C30, the part that holds: everything queued or stored about a comment is
\* about a committed comment
C30_CommentCommitted ==
    /\ \A t \in eventQ :
         t.args.entity_type = "comment" => t.args.entity_id \in entities
    /\ \A i \in 1..Len(notifications) :
         notifications[i].entity_type = "comment"
         => notifications[i].entity_id \in entities
    /\ \A d \in DOMAIN deliveries :
         deliveries[d].payload.entity_type = "comment"
         => deliveries[d].payload.entity_id \in entities

\* C30: the state the claim excludes: the request has ended without its
\* row being committed, and a Notification and a Delivery about the row
\* exist
C30_NotifiedOfRolledBack ==
    /\ DOMAIN sessions = {}
    /\ \E i \in 1..Len(notifications) :
         /\ notifications[i].entity_id \notin entities
         /\ notifications[i].event_type = DocumentCheckedOut
    /\ \E d \in DOMAIN deliveries :
         deliveries[d].payload.entity_id \notin entities

====
